---- MODULE Spec2Model ----
(***************************************************************************)
(* A model of bvbscraper: the listing scraper (get_all_shares and the      *)
(* header normaliser), the Share / Company entities with their validating  *)
(* setters, the history scraper (get_history), the instrument detail page  *)
(* (post_response_instrument_details_form, get_share_info) and the         *)
(* filtered listing of src/bvb (_standardize_list_parameter, get_shares).  *)
(*                                                                         *)
(* Python strings are sequences of symbols.  A symbol is one character     *)
(* ("A", "7", ";", " ", "-") or, where nothing looks inside it, a run of   *)
(* characters that holds no separator and no whitespace ("Simbol").        *)
(* Python values are records tagged by their type.                         *)
(***************************************************************************)
EXTENDS Integers, Sequences, FiniteSets, TLC

VARIABLES
    listing,                \* what the exchange serves: body of the CSV, symbols without metadata
    pc,                     \* position of get_all_shares: "start", "loop", "returned", "raised"
    header_list,            \* the preprocessed header (get_all_shares local)
    company_headers_index,  \* column index of each Company field
    symbol_headers_index,   \* column index of each Share field
    response_lines,         \* the lines of the body, trailing blank line removed
    line_no,                \* number of data rows the loop has finished
    share_list,             \* the Shares built so far
    company,                \* the Company built by the latest iteration
    requests,               \* the GET requests issued, in order
    warned,                 \* the header tokens warnings.warn was called for, in order
    outcome,                \* what the caller gets: the returned list or the exception
    share,                  \* a Share object under a sequence of setter calls
    issuer,                 \* a Company object under a sequence of setter calls
    call,                   \* the latest setter call and what it did
    ncalls,                 \* number of setter calls made
    history_call,           \* get_history: the arguments, the clock and the local UTC offset
    history_api,            \* the response the history endpoint gives
    history_pc,             \* position of get_history: "start", "requested", "returned", "raised"
    start_date,             \* get_history local: the resolved start of the range
    end_date,               \* get_history local: the resolved end of the range
    history_requests,       \* the GET requests get_history issued, in order
    history_outcome,        \* what the caller of get_history gets
    form_call,              \* the detail page call: entry point, symbol, button, form_id
    site,                   \* what the detail page answers to the GET and to the POST
    form_pc,                \* position of the call: "start", "loaded", "posted", "returned", "raised"
    form_requests,          \* the GET and POST requests of the call, in order
    form_outcome,           \* what the caller of the detail page call gets
    shares_call,            \* the filtered listing call: entry point and its arguments
    shares_site,            \* what the exchange serves to that call: the CSV, the symbol metadata
    shares_pc,              \* position of the call: "start", "filters", "rows", "returned", "raised"
    FILTERS,                \* __get_shares_from_share_list local: the allowed values of each filter column
    shares_lines,           \* __get_shares_from_share_list local: response_lines
    row_no,                 \* number of rows of response_lines[1:-1] the loop has finished
    return_values,          \* the Shares appended so far
    info_no,                \* number of Shares the metadata loop has finished
    shares_requests,        \* the GET requests of the call, in order
    shares_outcome          \* what the caller gets

listing_vars == <<listing, pc, header_list, company_headers_index, symbol_headers_index,
                  response_lines, line_no, share_list, company, requests, warned, outcome>>
entity_vars == <<share, issuer, call, ncalls>>
history_vars == <<history_call, history_api, history_pc, start_date, end_date, history_requests,
                  history_outcome>>
form_vars == <<form_call, site, form_pc, form_requests, form_outcome>>
shares_vars == <<shares_call, shares_site, shares_pc, FILTERS, shares_lines, row_no,
                 return_values, info_no, shares_requests, shares_outcome>>
vars == <<listing_vars, entity_vars, history_vars, form_vars, shares_vars>>

----------------------------------------------------------------------------
(* Bounds of the model *)

MaxRows == 2        \* data rows in a served listing
MaxRot == 2         \* column orders: the canonical order rotated by 0..MaxRot
MaxCalls == 2       \* setter calls applied to an entity after construction

----------------------------------------------------------------------------
(* Python values *)

NoneVal == [t |-> "None"]
StrVal(s) == [t |-> "str", s |-> s]
IntVal(n) == [t |-> "int", n |-> n]
FloatVal(num, den) == [t |-> "float", num |-> num, den |-> den]   \* the number num/den
ListVal(l) == [t |-> "list", l |-> l]
Unset == [t |-> "unset"]        \* the attribute is not in vars(self)
NoExc == [type |-> "none"]      \* the call raised nothing

\* bool(v): what `if v:` tests
Truthy(v) ==
    CASE v.t = "None" -> FALSE
      [] v.t = "str" -> v.s # <<>>
      [] v.t = "int" -> v.n # 0
      [] v.t = "float" -> v.num # 0
      [] v.t = "list" -> v.l # <<>>
      [] OTHER -> TRUE

Range(f) == {f[i] : i \in DOMAIN f}

----------------------------------------------------------------------------
(* str methods *)

CRLF == "\r\n"
Whitespace == {" ", "\t", "\n", "\r"}
Digits == {"0", "1", "2", "3", "4", "5", "6", "7", "8", "9"}
LowerLetters == <<"a", "b", "c", "d", "e", "f", "g", "h", "i", "j", "k", "l", "m",
                  "n", "o", "p", "q", "r", "s", "t", "u", "v", "w", "x", "y", "z">>
UpperLetters == <<"A", "B", "C", "D", "E", "F", "G", "H", "I", "J", "K", "L", "M",
                  "N", "O", "P", "Q", "R", "S", "T", "U", "V", "W", "X", "Y", "Z">>
Lower == Range(LowerLetters)
Upper == Range(UpperLetters)

\* s.split(sep) for a one-symbol separator: never an empty list
RECURSIVE split(_, _)
split(s, sep) ==
    IF \A i \in 1..Len(s) : s[i] # sep
    THEN <<s>>
    ELSE LET k == CHOOSE i \in 1..Len(s) : s[i] = sep /\ \A j \in 1..(i - 1) : s[j] # sep
         IN  <<SubSeq(s, 1, k - 1)>> \o split(SubSeq(s, k + 1, Len(s)), sep)

\* s.strip()
strip(s) ==
    IF \A i \in 1..Len(s) : s[i] \in Whitespace
    THEN <<>>
    ELSE LET a == CHOOSE i \in 1..Len(s) : s[i] \notin Whitespace /\ \A j \in 1..(i - 1) : s[j] \in Whitespace
             b == CHOOSE i \in 1..Len(s) : s[i] \notin Whitespace /\ \A j \in (i + 1)..Len(s) : s[j] \in Whitespace
         IN  SubSeq(s, a, b)

\* sep.join(l)
RECURSIVE join(_, _)
join(l, sep) ==
    IF l = <<>> THEN <<>>
    ELSE IF Len(l) = 1 THEN l[1]
    ELSE l[1] \o <<sep>> \o join(Tail(l), sep)

\* s.replace(old, "") for a one-symbol old
remove(s, old) == SelectSeq(s, LAMBDA c : c # old)

\* s.replace(old, new) for one-symbol old and new
replace(s, old, new) == [i \in 1..Len(s) |-> IF s[i] = old THEN new ELSE s[i]]

upper_char(c) ==
    IF c \in Lower
    THEN UpperLetters[CHOOSE i \in 1..26 : LowerLetters[i] = c]
    ELSE c

\* s.upper()
upper(s) == [i \in 1..Len(s) |-> upper_char(s[i])]

\* l.index(x), 0-based as in Python; -1 stands for the ValueError of an absent x
index(l, x) ==
    IF \E i \in 1..Len(l) : l[i] = x
    THEN (CHOOSE i \in 1..Len(l) : l[i] = x /\ \A j \in 1..(i - 1) : l[j] # x) - 1
    ELSE -1

\* l[i] with Python's 0-based i; callers test InRange first (IndexError otherwise)
InRange(l, i) == i >= 0 /\ i < Len(l)
item(l, i) == l[i + 1]

----------------------------------------------------------------------------
(* Header normaliser *)

ro_en_mappings == <<
    << <<"Simbol">>, <<"Symbol">> >>,
    << <<"Denumire", " ", "emisiune">>, <<"Security", " ", "name">> >>,
    << <<"ISIN">>, <<"ISIN">> >>,
    << <<"Emitent">>, <<"Issuer">> >>,
    << <<"Cod", " ", "Fiscal", " ", "/", " ", "CUI">>, <<"Fiscal", " ", "/", " ", "Unique", " ", "Code">> >>,
    << <<"Actiuni">>, <<"Shares">> >>,
    << <<"Valoare", " ", "nominala">>, <<"Face", " ", "value">> >>,
    << <<"Cod", " ", "CAEN">>, <<"CAEN", " ", "Code">> >>,
    << <<"Judet">>, <<"District">> >>,
    << <<"Tara">>, <<"Country">> >>,
    << <<"Sectiune", " ", "bursa">>, <<"Exchange", " ", "segment">> >>,
    << <<"Piata", " ", "Principala">>, <<"Main", " ", "Market">> >>,
    << <<"Categoria">>, <<"Tier">> >>,
    << <<"Stare">>, <<"Status">> >>,
    << <<"Model", " ", "tranzactionare">>, <<"Trading", " ", "Model", " ", "Type">> >>,
    << <<"Lista", " ", "pasi", " ", "de", " ", "pret">>, <<"Price", " ", "steps", " ", "list">> >> >>

expected_header_list == <<
    <<"Symbol">>,
    <<"Security", " ", "name">>,
    <<"ISIN">>,
    <<"Issuer">>,
    <<"Fiscal", " ", "/", " ", "Unique", " ", "Code">>,
    <<"Shares">>,
    <<"Face", " ", "value">>,
    <<"CAEN", " ", "Code">>,
    <<"District">>,
    <<"Country">>,
    <<"Exchange", " ", "segment">>,
    <<"Main", " ", "Market">>,
    <<"Tier">>,
    <<"Status">>,
    <<"Trading", " ", "Model", " ", "Type">>,
    <<"Price", " ", "steps", " ", "list">> >>

\* key in ro_en_mappings
has_mapping(token) == \E i \in 1..Len(ro_en_mappings) : ro_en_mappings[i][1] = token

\* ro_en_mappings[key] had the table one entry misspelt
mapping_of_misspelt(token) ==
    IF token = <<"Piata", " ", "Principala">> THEN <<"Main", " ", "market">>
    ELSE ro_en_mappings[CHOOSE i \in 1..Len(ro_en_mappings) : ro_en_mappings[i][1] = token][2]

\* ro_en_mappings[key]
mapping_of(token) ==
    ro_en_mappings[CHOOSE i \in 1..Len(ro_en_mappings) : ro_en_mappings[i][1] = token][2]

\* the normaliser, had it warned about every token of a Romanian header
preprocess_SharesListForDownload_header_warning_all(current_header) ==
    LET tokens == split(current_header, ";")
        stripped == [i \in 1..Len(tokens) |-> strip(tokens[i])]
        romanian == \E i \in 1..Len(stripped) : stripped[i] = <<"Simbol">>
    IN  IF romanian
        THEN [headers |-> [i \in 1..Len(stripped) |->
                              IF has_mapping(stripped[i]) THEN mapping_of(stripped[i])
                              ELSE stripped[i]],
              warnings |-> stripped]
        ELSE [headers |-> stripped, warnings |-> <<>>]

\* the normaliser, had it applied the mappings without looking for Simbol
preprocess_SharesListForDownload_header_always_mapping(current_header) ==
    LET tokens == split(current_header, ";")
        stripped == [i \in 1..Len(tokens) |-> strip(tokens[i])]
    IN  [headers |-> [i \in 1..Len(stripped) |->
                        IF has_mapping(stripped[i]) THEN mapping_of(stripped[i])
                        ELSE stripped[i]],
         warnings |-> SelectSeq(stripped, LAMBDA t : ~has_mapping(t))]

\* __preprocess_SharesListForDownload_header: the header tokens and the
\* tokens a warning was emitted for
preprocess_SharesListForDownload_header(current_header) ==
    LET tokens == split(current_header, ";")
        stripped == [i \in 1..Len(tokens) |-> strip(tokens[i])]
        romanian == \E i \in 1..Len(stripped) : stripped[i] = <<"Simbol">>
    IN  IF romanian
        THEN [headers |-> [i \in 1..Len(stripped) |->
                              IF has_mapping(stripped[i]) THEN mapping_of(stripped[i])
                              ELSE stripped[i]],
              warnings |-> SelectSeq(stripped, LAMBDA t : ~has_mapping(t))]
        ELSE [headers |-> stripped, warnings |-> <<>>]

\* the validation, had its loop stopped one expected header early
validate_SharesListForDownload_header_one_short(current_header_list) ==
    IF \E i \in 1..(Len(expected_header_list) - 1) : expected_header_list[i] \notin Range(current_header_list)
    THEN [type |-> "KeyError",
          header |-> expected_header_list[
                        CHOOSE i \in 1..(Len(expected_header_list) - 1) :
                            /\ expected_header_list[i] \notin Range(current_header_list)
                            /\ \A j \in 1..(i - 1) : expected_header_list[j] \in Range(current_header_list)]]
    ELSE NoExc

\* __validate_SharesListForDownload_header: NoExc, or the KeyError naming the
\* first expected column that is absent
validate_SharesListForDownload_header(current_header_list) ==
    IF \E i \in 1..Len(expected_header_list) : expected_header_list[i] \notin Range(current_header_list)
    THEN [type |-> "KeyError",
          header |-> expected_header_list[
                        CHOOSE i \in 1..Len(expected_header_list) :
                            /\ expected_header_list[i] \notin Range(current_header_list)
                            /\ \A j \in 1..(i - 1) : expected_header_list[j] \in Range(current_header_list)]]
    ELSE NoExc

----------------------------------------------------------------------------
(* Regular expressions and number parsing used by the setters *)

all_in(s, S) == \A i \in 1..Len(s) : s[i] \in S

\* the strings a pattern between ^ and $ is held against: `$` matches at the
\* end of s and also before one final newline
up_to_dollar(s) ==
    {s} \cup (IF Len(s) > 0 /\ s[Len(s)] = "\n" THEN {SubSeq(s, 1, Len(s) - 1)} ELSE {})

\* [a-zA-Z0-9]+
alnum_pattern(s) == Len(s) > 0 /\ all_in(s, Lower \cup Upper \cup Digits)

\* [A-Z]{2}[A-Z0-9]{9}[0-9]{1}
isin_pattern(s) ==
    /\ Len(s) = 12
    /\ all_in(SubSeq(s, 1, 2), Upper)
    /\ all_in(SubSeq(s, 3, 11), Upper \cup Digits)
    /\ s[12] \in Digits

\* [0-9]{4}
nace_pattern(s) == Len(s) = 4 /\ all_in(s, Digits)

\* [A-Z]{2}
country_pattern(s) == Len(s) = 2 /\ all_in(s, Upper)

\* ^[JCF][0-9]{2}/[0-9]+/[0-9]{4} : a prefix of s matches
reg_code_pattern(s) ==
    \E k \in 5..Len(s) :
        /\ s[1] \in {"J", "C", "F"}
        /\ s[2] \in Digits /\ s[3] \in Digits
        /\ s[4] = "/"
        /\ s[k] = "/"
        /\ k > 5 /\ all_in(SubSeq(s, 5, k - 1), Digits)
        /\ k + 4 <= Len(s) /\ all_in(SubSeq(s, k + 1, k + 4), Digits)

\* ^(.+@.+\..+)+ : something, "@", something, ".", something, no newline inside
email_pattern(s) ==
    \E i, j \in 1..Len(s) :
        /\ 1 < i /\ i + 1 < j /\ j < Len(s)
        /\ s[i] = "@" /\ s[j] = "."
        /\ \A k \in 1..(j + 1) : s[k] # "\n"

DigitSeq == <<"0", "1", "2", "3", "4", "5", "6", "7", "8", "9">>
digit_value(c) == (CHOOSE i \in 1..10 : DigitSeq[i] = c) - 1

RECURSIVE digits_value(_)
digits_value(s) ==
    IF s = <<>> THEN 0
    ELSE 10 * digits_value(SubSeq(s, 1, Len(s) - 1)) + digit_value(s[Len(s)])

RECURSIVE pow10(_)
pow10(k) == IF k = 0 THEN 1 ELSE 10 * pow10(k - 1)

\* int(v): [ok, n] for a str, int or float v; ok = FALSE is the ValueError of a
\* string that is no integer literal
int_of(v) ==
    CASE v.t = "int" -> [ok |-> TRUE, n |-> v.n]
      [] v.t = "float" -> [ok |-> TRUE, n |-> v.num \div v.den]
      [] v.t = "str" ->
            LET s == strip(v.s)
                signed == Len(s) > 0 /\ s[1] \in {"+", "-"}
                body == IF signed THEN Tail(s) ELSE s
            IN  IF Len(body) > 0 /\ all_in(body, Digits)
                THEN [ok |-> TRUE,
                      n |-> IF signed /\ s[1] = "-" THEN 0 - digits_value(body) ELSE digits_value(body)]
                ELSE [ok |-> FALSE, n |-> 0]
      [] OTHER -> [ok |-> FALSE, n |-> 0]

RECURSIVE reduce10(_, _)
reduce10(num, den) ==
    IF den > 1 /\ num % 10 = 0 THEN reduce10(num \div 10, den \div 10) ELSE FloatVal(num, den)

\* float(s) for a str s: [ok, f]; ok = FALSE is the ValueError of a string
\* that is no decimal literal
float_of(str) ==
    LET s == strip(str)
        signed == Len(s) > 0 /\ s[1] \in {"+", "-"}
        body == IF signed THEN Tail(s) ELSE s
        parts == split(body, ".")
        whole == parts[1]
        frac == IF Len(parts) = 2 THEN parts[2] ELSE <<>>
        mag == digits_value(whole \o frac)
    IN  IF /\ Len(parts) <= 2
           /\ all_in(whole, Digits) /\ all_in(frac, Digits)
           /\ Len(whole) + Len(frac) > 0
        THEN [ok |-> TRUE,
              f |-> reduce10(IF signed /\ s[1] = "-" THEN 0 - mag ELSE mag, pow10(Len(frac)))]
        ELSE [ok |-> FALSE, f |-> FloatVal(0, 1)]

----------------------------------------------------------------------------
(* Entities: what a setter call does to an object *)

\* did tells the path taken: an assignment to the attribute, a raise, or neither
Stored(self, f, v) == [self |-> [self EXCEPT ![f] = v], exc |-> NoExc, did |-> "stored"]
Ignored(self) == [self |-> self, exc |-> NoExc, did |-> "ignored"]
\* value is the value the message shows, Unset when the message shows none
Raised(self, type, f, v) ==
    [self |-> self, exc |-> [type |-> type, field |-> f, value |-> v], did |-> "raised"]

\* a getter: the attribute, or None when it is not in vars(self)
get(self, f) == IF self[f] = Unset THEN NoneVal ELSE self[f]

\* kwargs.get(key)
kwargs_get(kwargs, key) == IF key \in DOMAIN kwargs THEN kwargs[key] ELSE NoneVal

----------------------------------------------------------------------------
(* Company *)

CompanyFields == {"name", "fiscal_code", "nace_code", "district", "country_iso2", "sector",
                  "industry", "commerce_registry_code", "address", "website", "email",
                  "activity_field", "description", "shareholders"}

\* a Company whose __init__ has set nothing yet
NewCompany == [f \in CompanyFields |-> Unset]

\* a setter of the shape: `if v: if type(v) != str: raise TypeError; self.f = v`
plain_str_setter(self, f, v) ==
    IF ~Truthy(v) THEN Ignored(self)
    ELSE IF v.t # "str" THEN Raised(self, "TypeError", f, Unset)
    ELSE Stored(self, f, v)

\* a setter of the shape: `... self.f = v.upper()`
upper_str_setter(self, f, v) ==
    IF ~Truthy(v) THEN Ignored(self)
    ELSE IF v.t # "str" THEN Raised(self, "TypeError", f, Unset)
    ELSE Stored(self, f, StrVal(upper(v.s)))

Company_name_setter(self, v) ==
    IF ~Truthy(v) THEN Raised(self, "ValueError", "name", Unset)
    ELSE IF v.t # "str" THEN Raised(self, "TypeError", "name", Unset)
    ELSE Stored(self, "name", v)

Company_fiscal_code_setter(self, v) ==
    IF ~Truthy(v) THEN Raised(self, "ValueError", "fiscal_code", Unset)
    ELSE IF v.t \notin {"str", "int"} THEN Raised(self, "TypeError", "fiscal_code", Unset)
    ELSE IF v.t = "str" /\ strip(v.s) = <<>> THEN Raised(self, "ValueError", "fiscal_code", Unset)
    ELSE Stored(self, "fiscal_code", v)

Company_nace_code_setter(self, v) ==
    IF ~Truthy(v) THEN Ignored(self)
    ELSE IF v.t # "str" THEN Raised(self, "AttributeError", "replace", Unset)  \* v.replace
    ELSE LET code == strip(remove(v.s, "-"))
         IN  IF (\E x \in up_to_dollar(code) : nace_pattern(x))
             THEN Stored(self, "nace_code", StrVal(code))
             ELSE Ignored(self)

Company_district_setter(self, v) == plain_str_setter(self, "district", v)

Company_country_iso2_setter(self, v) ==
    IF ~Truthy(v) THEN Ignored(self)
    ELSE IF v.t # "str" THEN Raised(self, "TypeError", "country_iso2", Unset)
    ELSE LET code == strip(upper(v.s))
         IN  IF (\E x \in up_to_dollar(code) : country_pattern(x))
             THEN Stored(self, "country_iso2", StrVal(code))
             ELSE Raised(self, "ValueError", "country_iso2", Unset)

Company_sector_setter(self, v) == upper_str_setter(self, "sector", v)

Company_industry_setter(self, v) == upper_str_setter(self, "industry", v)

Company_commerce_registry_code_setter(self, v) ==
    IF ~Truthy(v) THEN Ignored(self)
    ELSE IF v.t # "str" THEN Raised(self, "TypeError", "commerce_registry_code", Unset)
    ELSE LET code == upper(v.s)
         IN  IF reg_code_pattern(code)
             THEN Stored(self, "commerce_registry_code", StrVal(code))
             ELSE Ignored(self)

Company_address_setter(self, v) == plain_str_setter(self, "address", v)

Company_website_setter(self, v) == plain_str_setter(self, "website", v)

Company_email_setter(self, v) ==
    IF ~Truthy(v) THEN Ignored(self)
    ELSE IF v.t # "str" THEN Raised(self, "TypeError", "email", Unset)
    ELSE IF email_pattern(v.s) THEN Stored(self, "email", v)
    ELSE Ignored(self)

Company_activity_field_setter(self, v) == upper_str_setter(self, "activity_field", v)

Company_description_setter(self, v) == plain_str_setter(self, "description", v)

Company_shareholders_setter(self, v) ==
    IF ~Truthy(v) THEN Ignored(self)
    ELSE IF v.t # "list" THEN Raised(self, "TypeError", "shareholders", Unset)
    ELSE Stored(self, "shareholders", v)

\* self.<f> = v on a Company
Company_setattr(self, f, v) ==
    CASE f = "name" -> Company_name_setter(self, v)
      [] f = "fiscal_code" -> Company_fiscal_code_setter(self, v)
      [] f = "nace_code" -> Company_nace_code_setter(self, v)
      [] f = "district" -> Company_district_setter(self, v)
      [] f = "country_iso2" -> Company_country_iso2_setter(self, v)
      [] f = "sector" -> Company_sector_setter(self, v)
      [] f = "industry" -> Company_industry_setter(self, v)
      [] f = "commerce_registry_code" -> Company_commerce_registry_code_setter(self, v)
      [] f = "address" -> Company_address_setter(self, v)
      [] f = "website" -> Company_website_setter(self, v)
      [] f = "email" -> Company_email_setter(self, v)
      [] f = "activity_field" -> Company_activity_field_setter(self, v)
      [] f = "description" -> Company_description_setter(self, v)
      [] f = "shareholders" -> Company_shareholders_setter(self, v)

\* the order in which Company.__init__ assigns, with the kwargs key each
\* assignment reads (name and fiscal_code are parameters of their own)
CompanyInitOrder == <<
    <<"nace_code", "nace_code">>, <<"district", "district">>,
    <<"country_iso2", "country_iso2">>, <<"sector", "sector">>, <<"industry", "industry">>,
    <<"commerce_registry_code", "commerce_registry_code">>, <<"address", "address">>,
    <<"website", "website">>, <<"email", "email">>, <<"activity_field", "activity_field">>,
    <<"description", "description">>, <<"shareholders", "shareholders">> >>

\* the assignments of Company.__init__ from position k on; the first one that
\* raises ends the construction
RECURSIVE Company_init_from(_, _, _)
Company_init_from(r, kwargs, k) ==
    IF r.exc # NoExc \/ k > Len(CompanyInitOrder) THEN r
    ELSE Company_init_from(
            Company_setattr(r.self, CompanyInitOrder[k][1], kwargs_get(kwargs, CompanyInitOrder[k][2])),
            kwargs, k + 1)

\* Company(name, fiscal_code, params, **kwargs); params is NoneVal or a dict
Company_init(name, fiscal_code, params, kwargs) ==
    LET merged == IF params = NoneVal THEN kwargs
                  ELSE [k \in DOMAIN params \cup DOMAIN kwargs |->
                            IF k \in DOMAIN kwargs THEN kwargs[k] ELSE params[k]]
        r1 == Company_name_setter(NewCompany, name)
        r2 == IF r1.exc # NoExc THEN r1 ELSE Company_fiscal_code_setter(r1.self, fiscal_code)
    IN  Company_init_from(r2, merged, 1)

\* Company.info
Company_info(self) ==
    [company_name |-> get(self, "name"),
     fiscal_code |-> get(self, "fiscal_code"),
     commerce_registry_code |-> get(self, "commerce_registry_code"),
     headquarters |-> get(self, "address"),
     district |-> get(self, "district"),
     country_iso2 |-> get(self, "country_iso2"),
     nace_code |-> get(self, "nace_code"),
     sector |-> get(self, "sector"),
     industry |-> get(self, "industry"),
     activity_field |-> get(self, "activity_field"),
     description |-> get(self, "description"),
     website |-> get(self, "website"),
     email |-> get(self, "email"),
     shareholders |-> get(self, "shareholders")]

----------------------------------------------------------------------------
(* Share *)

ShareFields == {"symbol", "isin", "name", "company", "total_shares", "face_value",
                "segment", "market", "tier", "status"}

\* a Share whose __init__ has set nothing yet
NewShare == [f \in ShareFields |-> Unset]

\* an instance of Company as a value
CompanyVal(obj) == [t |-> "Company", obj |-> obj]

Share_symbol_setter(self, v) ==
    IF ~Truthy(v) THEN Raised(self, "ValueError", "symbol", Unset)
    ELSE IF v.t # "str" THEN Raised(self, "TypeError", "symbol", Unset)
    ELSE LET symbol == remove(v.s, " ")
         IN  IF (\E x \in up_to_dollar(symbol) : alnum_pattern(x))
             THEN Stored(self, "symbol", StrVal(upper(symbol)))
             ELSE Raised(self, "ValueError", "symbol", StrVal(symbol))

\* the setter, had it upper-cased the value like the symbol setter does
Share_isin_setter_uppercasing(self, v) ==
    IF ~Truthy(v) THEN Ignored(self)
    ELSE IF v.t = "str"
         THEN IF (\E x \in up_to_dollar(upper(v.s)) : isin_pattern(x))
              THEN Stored(self, "isin", StrVal(upper(v.s)))
              ELSE Raised(self, "ValueError", "isin", v)
         ELSE Raised(self, "TypeError", "isin", Unset)

Share_isin_setter(self, v) ==
    IF ~Truthy(v) THEN Ignored(self)
    ELSE IF v.t = "str"
         THEN IF (\E x \in up_to_dollar(v.s) : isin_pattern(x))
              THEN Stored(self, "isin", v)
              ELSE Raised(self, "ValueError", "isin", v)
         ELSE Raised(self, "TypeError", "isin", Unset)

Share_name_setter(self, v) == plain_str_setter(self, "name", v)

Share_company_setter(self, v) ==
    IF ~Truthy(v) THEN Ignored(self)
    ELSE IF v.t = "Company" THEN Stored(self, "company", v)
    ELSE Raised(self, "TypeError", "company", Unset)

\* the setter, had it assigned the number before testing its sign
Share_total_shares_setter_assigning_first(self, v) ==
    IF ~Truthy(v) THEN Ignored(self)
    ELSE IF v.t \notin {"str", "int", "float"}
         THEN Raised(self, "TypeError", "int", Unset)
    ELSE LET parsed == int_of(v)
         IN  IF ~parsed.ok THEN Raised(self, "TypeError", "total_shares", v)
             ELSE IF parsed.n <= 0
                  THEN Raised([self EXCEPT !["total_shares"] = IntVal(parsed.n)],
                              "ValueError", "total_shares", IntVal(parsed.n))
             ELSE Stored(self, "total_shares", IntVal(parsed.n))

Share_total_shares_setter(self, v) ==
    IF ~Truthy(v) THEN Ignored(self)
    ELSE IF v.t \notin {"str", "int", "float"}
         THEN Raised(self, "TypeError", "int", Unset)      \* int(v) itself raises TypeError
    ELSE LET parsed == int_of(v)
         IN  IF ~parsed.ok THEN Raised(self, "TypeError", "total_shares", v)
             ELSE IF parsed.n <= 0 THEN Raised(self, "ValueError", "total_shares", IntVal(parsed.n))
             ELSE Stored(self, "total_shares", IntVal(parsed.n))

\* the setter, had it stored zero for a string that holds the placeholder only
Share_face_value_setter_zero_placeholder(self, v) ==
    IF ~Truthy(v) THEN Ignored(self)
    ELSE IF v.t = "str"
         THEN LET text == replace(strip(remove(v.s, "-")), ",", ".")
                  parsed == float_of(text)
              IN  IF text = <<>> THEN Stored(self, "face_value", FloatVal(0, 1))
                  ELSE IF ~parsed.ok THEN Raised(self, "TypeError", "face_value", StrVal(text))
                  ELSE Stored(self, "face_value", parsed.f)
    ELSE IF v.t \in {"int", "float"} THEN Stored(self, "face_value", v)
    ELSE Ignored(self)

Share_face_value_setter(self, v) ==
    IF ~Truthy(v) THEN Ignored(self)
    ELSE IF v.t = "str"
         THEN LET text == replace(strip(remove(v.s, "-")), ",", ".")
                  parsed == float_of(text)
              IN  IF text = <<>> THEN Ignored(self)
                  ELSE IF ~parsed.ok THEN Raised(self, "TypeError", "face_value", StrVal(text))
                  ELSE Stored(self, "face_value", parsed.f)
    ELSE IF v.t \in {"int", "float"} THEN Stored(self, "face_value", v)
    ELSE Ignored(self)

Share_segment_setter(self, v) ==
    IF ~Truthy(v) THEN Ignored(self)
    ELSE IF v \in {StrVal(<<"B", "S", "E">>), StrVal(<<"B", "E", "R">>), StrVal(<<"A", "T", "S">>)}
         THEN Stored(self, "segment", v)
    ELSE Raised(self, "ValueError", "segment", v)

Share_market_setter(self, v) ==
    IF ~Truthy(v) THEN Ignored(self)
    ELSE IF v \in {StrVal(<<"R", "E", "G", "S">>), StrVal(<<"X", "R", "S", "1">>),
                  StrVal(<<"X", "R", "S", "I">>)}
         THEN Stored(self, "market", v)
    ELSE IF v = StrVal(<<"-">>) THEN Stored(self, "market", NoneVal)
    ELSE Raised(self, "ValueError", "market", v)

tier_ro_en_mappings == <<
    << <<"I", "N", "T", "L", "-", "S", "M", "T">>, <<"I", "N", "T", "L", "-", "M", "T", "S">> >>,
    << <<"A", "E", "R", "O", " ", "B", "A", "Z", "A">>, <<"A", "E", "R", "O", " ", "B", "A", "S", "E">> >> >>

valid_tiers == {
    <<"I", "N", "T", "'", "L">>,
    <<"P", "R", "E", "M", "I", "U", "M">>,
    <<"S", "T", "A", "N", "D", "A", "R", "D">>,
    <<"A", "E", "R", "O", " ", "P", "R", "E", "M", "I", "U", "M">>,
    <<"A", "E", "R", "O", " ", "S", "T", "A", "N", "D", "A", "R", "D">>,
    <<"A", "E", "R", "O", " ", "B", "A", "S", "E">>,
    <<"I", "N", "T", "L", "-", "M", "T", "S">>,
    <<"I", "I", "I", "-", "R">> }

Share_tier_setter(self, v) ==
    IF ~Truthy(v) THEN Ignored(self)
    ELSE IF v.t # "str" THEN Raised(self, "TypeError", "tier", Unset)
    ELSE LET up == upper(v.s)
             tier == IF \E i \in 1..Len(tier_ro_en_mappings) : tier_ro_en_mappings[i][1] = up
                     THEN tier_ro_en_mappings[CHOOSE i \in 1..Len(tier_ro_en_mappings) :
                                                 tier_ro_en_mappings[i][1] = up][2]
                     ELSE up
         IN  IF tier \in valid_tiers THEN Stored(self, "tier", StrVal(tier))
             ELSE IF tier = <<"-">> THEN Stored(self, "tier", NoneVal)
             ELSE Raised(self, "ValueError", "tier", StrVal(tier))

status_ro_en_mappings == <<
    << <<"T", "R", "A", "N", "Z", "A", "C", "T", "I", "O", "N", "A", "B", "I", "L", "A">>,
       <<"T", "R", "A", "D", "E", "A", "B", "L", "E">> >>,
    << <<"S", "U", "S", "P", "E", "N", "D", "A", "T", "A">>,
       <<"S", "U", "S", "P", "E", "N", "D", "E", "D">> >> >>

Share_status_setter(self, v) ==
    IF ~Truthy(v) THEN Ignored(self)
    ELSE IF v.t # "str" THEN Raised(self, "TypeError", "status", Unset)
    ELSE LET status == upper(v.s)
         IN  IF \E i \in 1..Len(status_ro_en_mappings) : status_ro_en_mappings[i][1] = status
             THEN Stored(self, "status",
                         StrVal(status_ro_en_mappings[CHOOSE i \in 1..Len(status_ro_en_mappings) :
                                                         status_ro_en_mappings[i][1] = status][2]))
             ELSE Raised(self, "ValueError", "status", StrVal(status))

\* self.<f> = v on a Share
Share_setattr(self, f, v) ==
    CASE f = "symbol" -> Share_symbol_setter(self, v)
      [] f = "isin" -> Share_isin_setter(self, v)
      [] f = "name" -> Share_name_setter(self, v)
      [] f = "company" -> Share_company_setter(self, v)
      [] f = "total_shares" -> Share_total_shares_setter(self, v)
      [] f = "face_value" -> Share_face_value_setter(self, v)
      [] f = "segment" -> Share_segment_setter(self, v)
      [] f = "market" -> Share_market_setter(self, v)
      [] f = "tier" -> Share_tier_setter(self, v)
      [] f = "status" -> Share_status_setter(self, v)

\* parameters of Share.__init__ without a default, and all of them
ShareRequiredParams == {"symbol", "isin", "name", "company", "total_shares", "face_value",
                        "market", "tier", "status"}
ShareParams == ShareRequiredParams \cup {"segment"}

\* the order in which Share.__init__ assigns
ShareInitOrder == <<"symbol", "isin", "name", "company", "total_shares", "face_value",
                    "segment", "market", "tier", "status">>

RECURSIVE Share_init_from(_, _, _)
Share_init_from(r, args, k) ==
    IF r.exc # NoExc \/ k > Len(ShareInitOrder) THEN r
    ELSE Share_init_from(
            Share_setattr(r.self, ShareInitOrder[k],
                          IF ShareInitOrder[k] \in DOMAIN args THEN args[ShareInitOrder[k]] ELSE NoneVal),
            args, k + 1)

\* Share(**args): binding the arguments fails with TypeError when a parameter
\* without default gets no argument or an argument names no parameter
Share_init(args) ==
    IF ~(ShareRequiredParams \subseteq DOMAIN args) \/ ~(DOMAIN args \subseteq ShareParams)
    THEN Raised(NewShare, "TypeError", "__init__", Unset)
    ELSE Share_init_from(Ignored(NewShare), args, 1)

\* Share.info
Share_info(self) ==
    [symbol |-> get(self, "symbol"),
     isin |-> get(self, "isin"),
     share_name |-> get(self, "name"),
     total_shares |-> get(self, "total_shares"),
     face_value |-> get(self, "face_value"),
     segment |-> get(self, "segment"),
     market |-> get(self, "market"),
     tier |-> get(self, "tier"),
     status |-> get(self, "status"),
     company |-> IF Truthy(get(self, "company"))
                 THEN Company_info(get(self, "company").obj)
                 ELSE NoneVal]

----------------------------------------------------------------------------
(* Setter calls on a constructed Share or Company *)

NoCall == [object |-> "none"]

EntityIdle ==
    /\ share = NewShare
    /\ issuer = NewCompany
    /\ call = NoCall
    /\ ncalls = 0

ListingIdle ==
    /\ listing = Unset
    /\ pc = "idle"
    /\ header_list = <<>>
    /\ company_headers_index = <<>>
    /\ symbol_headers_index = <<>>
    /\ response_lines = <<>>
    /\ line_no = 0
    /\ share_list = <<>>
    /\ company = Unset
    /\ requests = <<>>
    /\ warned = <<>>
    /\ outcome = Unset

HistoryIdle ==
    /\ history_call = Unset
    /\ history_api = Unset
    /\ history_pc = "idle"
    /\ start_date = Unset
    /\ end_date = Unset
    /\ history_requests = <<>>
    /\ history_outcome = Unset

FormIdle ==
    /\ form_call = Unset
    /\ site = Unset
    /\ form_pc = "idle"
    /\ form_requests = <<>>
    /\ form_outcome = Unset

SharesIdle ==
    /\ shares_call = Unset
    /\ shares_site = Unset
    /\ shares_pc = "idle"
    /\ FILTERS = <<>>
    /\ shares_lines = <<>>
    /\ row_no = 0
    /\ return_values = <<>>
    /\ info_no = 0
    /\ shares_requests = <<>>
    /\ shares_outcome = Unset

S_TLV == StrVal(<<"T", "L", "V">>)
S_ISIN == StrVal(<<"R", "O", "T", "L", "V", "A", "A", "C", "N", "O", "R", "1">>)
S_NAME == StrVal(<<"Banca", " ", "Transilvania">>)
S_FISCAL == StrVal(<<"5", "0", "2", "2", "6", "7", "0">>)

\* values every setter is tried with: the falsy ones and one of a foreign type
Falsy == {NoneVal, StrVal(<<>>), IntVal(0), ListVal(<<>>)}
Foreign == {[t |-> "dict"]}

MinimalCompany == Company_init(S_NAME, S_FISCAL, NoneVal, <<>>).self


\* the values a setter is called with
ShareInputs(f) ==
    Falsy \cup Foreign \cup
    CASE f = "symbol" ->
            {StrVal(<<"t", "l", "v">>), StrVal(<<"S", " ", "N", "P">>), StrVal(<<"T", "-", "V">>),
              StrVal(<<"E", "L", "\n">>)}
      [] f = "isin" ->
            {S_ISIN,
              StrVal(<<"U", "S", "0", "3", "7", "8", "3", "3", "1", "0", "0", "5">>),
              StrVal(<<"r", "o", "T", "L", "V", "A", "A", "C", "N", "O", "R", "1">>),
              StrVal(<<"R", "O", "T", "L", "V", "A", "A", "C", "N", "O", "R", "X">>),
              StrVal(<<"R", "O", "1">>),
              StrVal(<<"R", "O", "T", "L", "V", "A", "A", "C", "N", "O", "R", "1", "\n">>),
              StrVal(<<"R", "O", "T", "L", "V", "A", "A", "C", "N", "O", "R", "1", "2">>)}
      [] f = "name" ->
            {S_NAME}
      [] f = "company" ->
            {CompanyVal(MinimalCompany), S_NAME}
      [] f = "total_shares" ->
            {StrVal(<<"9", "1", "6">>), StrVal(<<" ", "7">>), IntVal(5), StrVal(<<"-", "3">>),
              IntVal(0 - 2), StrVal(<<"0">>), StrVal(<<"a", "b">>), StrVal(<<"1", ".", "5">>),
              FloatVal(5, 2), ListVal(<<IntVal(1)>>)}
      [] f = "face_value" ->
            {StrVal(<<"1", ",", "5", "0">>), StrVal(<<"0", ",", "2", "5">>), StrVal(<<"-">>),
              StrVal(<<"1", "0">>), StrVal(<<"0">>),
              StrVal(<<"a", "b">>), StrVal(<<"-", "2", ".", "5">>), IntVal(3), FloatVal(5, 2),
              ListVal(<<IntVal(1)>>)}
      [] f = "segment" ->
            {StrVal(<<"B", "S", "E">>), StrVal(<<"A", "T", "S">>), StrVal(<<"b", "s", "e">>)}
      [] f = "market" ->
            {StrVal(<<"R", "E", "G", "S">>), StrVal(<<"X", "R", "S", "1">>), StrVal(<<"-">>),
              StrVal(<<"A", "E", "R", "O">>)}
      [] f = "tier" ->
            {StrVal(<<"P", "r", "e", "m", "i", "u", "m">>), StrVal(<<"P", "R", "E", "M", "I", "U", "M">>),
              StrVal(<<"A", "e", "R", "O", " ", "B", "a", "z", "a">>), StrVal(<<"-">>),
              StrVal(<<"G", "o", "l", "d">>)}
      [] f = "status" ->
            {StrVal(<<"T", "r", "a", "n", "z", "a", "c", "t", "i", "o", "n", "a", "b", "i", "l", "a">>),
              StrVal(<<"S", "U", "S", "P", "E", "N", "D", "A", "T", "A">>),
              StrVal(<<"T", "R", "A", "D", "E", "A", "B", "L", "E">>),
              StrVal(<<"T", "r", "a", "d", "e", "a", "b", "l", "e">>)}

CompanyInputs(f) ==
    Falsy \cup Foreign \cup
    CASE f = "name" ->
            {S_NAME}
      [] f = "fiscal_code" ->
            {S_FISCAL, IntVal(5022670), StrVal(<<" ", " ">>)}
      [] f = "nace_code" ->
            {StrVal(<<"6", "4", "1", "9">>), StrVal(<<"6", "4", "-", "1", "9">>),
              StrVal(<<"1", "2", "A", "4">>), StrVal(<<"6", "4", "1">>), StrVal(<<"-">>),
              IntVal(6419)}
      [] f = "district" ->
            {StrVal(<<"C", "L", "U", "J">>)}
      [] f = "country_iso2" ->
            {StrVal(<<"r", "o">>), StrVal(<<" ", "R", "O", " ">>), StrVal(<<"R", "O", "U">>),
              StrVal(<<"R", "1">>)}
      [] f = "sector" ->
            {StrVal(<<"F", "i", "n">>)}
      [] f = "industry" ->
            {StrVal(<<"F", "i", "n">>)}
      [] f = "commerce_registry_code" ->
            {StrVal(<<"J", "1", "2", "/", "4", "1", "5", "5", "/", "1", "9", "9", "3">>),
              StrVal(<<"j", "1", "2", "/", "4", "/", "1", "9", "9", "3", "x">>),
              StrVal(<<"1", "2", "/", "4", "/", "1", "9", "9", "3">>),
              StrVal(<<"J", "1", "2", "/", "/", "1", "9", "9", "3">>)}
      [] f = "address" ->
            {StrVal(<<"Str.", " ", "Baritiu", " ", "8">>)}
      [] f = "website" ->
            {StrVal(<<"www", ".", "bt", ".", "ro">>)}
      [] f = "email" ->
            {StrVal(<<"office", "@", "bt", ".", "ro">>), StrVal(<<"office", "@", "bt">>),
              StrVal(<<"@", "bt", ".", "ro">>), StrVal(<<"office">>)}
      [] f = "activity_field" ->
            {StrVal(<<"B", "a", "n", "k", "s">>)}
      [] f = "description" ->
            {StrVal(<<"A", " ", "bank">>)}
      [] f = "shareholders" ->
            {ListVal(<<StrVal(<<"NN">>)>>), StrVal(<<"NN">>)}

\* share.<f> = v for some v, on the Share under test
ShareCall(f) ==
    /\ share # NewShare
    /\ ncalls < MaxCalls
    /\ \E v \in ShareInputs(f) :
        LET r == Share_setattr(share, f, v)
        IN  /\ share' = r.self
            /\ call' = [object |-> "Share", field |-> f, value |-> v, exc |-> r.exc, did |-> r.did,
                        before |-> share]
    /\ ncalls' = ncalls + 1
    /\ UNCHANGED <<issuer, listing_vars, history_vars, form_vars, shares_vars>>

\* issuer.<f> = v for some v, on the Company under test
CompanyCall(f) ==
    /\ issuer # NewCompany
    /\ ncalls < MaxCalls
    /\ \E v \in CompanyInputs(f) :
        LET r == Company_setattr(issuer, f, v)
        IN  /\ issuer' = r.self
            /\ call' = [object |-> "Company", field |-> f, value |-> v, exc |-> r.exc, did |-> r.did,
                        before |-> issuer]
    /\ ncalls' = ncalls + 1
    /\ UNCHANGED <<share, listing_vars, history_vars, form_vars, shares_vars>>

SetSymbol == ShareCall("symbol")
SetIsin == ShareCall("isin")
SetShareName == ShareCall("name")
SetCompany == ShareCall("company")
SetTotalShares == ShareCall("total_shares")
SetFaceValue == ShareCall("face_value")
SetSegment == ShareCall("segment")
SetMarket == ShareCall("market")
SetTier == ShareCall("tier")
SetStatus == ShareCall("status")

SetCompanyName == CompanyCall("name")
SetFiscalCode == CompanyCall("fiscal_code")
SetNaceCode == CompanyCall("nace_code")
SetDistrict == CompanyCall("district")
SetCountryIso2 == CompanyCall("country_iso2")
SetSector == CompanyCall("sector")
SetIndustry == CompanyCall("industry")
SetCommerceRegistryCode == CompanyCall("commerce_registry_code")
SetAddress == CompanyCall("address")
SetWebsite == CompanyCall("website")
SetEmail == CompanyCall("email")
SetActivityField == CompanyCall("activity_field")
SetDescription == CompanyCall("description")
SetShareholders == CompanyCall("shareholders")

\* the arguments the Share under test is constructed with
ShareConstructions == {
    [k \in ShareParams |-> IF k = "symbol" THEN S_TLV ELSE NoneVal],
    [k \in ShareParams |->
        CASE k = "symbol" -> S_TLV
          [] k = "isin" -> S_ISIN
          [] k = "name" -> S_NAME
          [] k = "company" -> CompanyVal(MinimalCompany)
          [] k = "total_shares" -> StrVal(<<"9", "1", "6">>)
          [] k = "face_value" -> StrVal(<<"1", ",", "5", "0">>)
          [] k = "segment" -> StrVal(<<"B", "S", "E">>)
          [] k = "market" -> StrVal(<<"R", "E", "G", "S">>)
          [] k = "tier" -> StrVal(<<"P", "r", "e", "m", "i", "u", "m">>)
          [] k = "status" -> StrVal(<<"S", "u", "s", "p", "e", "n", "d", "a", "t", "a">>)] }

\* the keyword arguments the Company under test is constructed with
CompanyConstructions == {
    <<>>,
    [k \in {"nace_code", "country_iso2", "sector", "email"} |->
        CASE k = "nace_code" -> StrVal(<<"6", "4", "1", "9">>)
          [] k = "country_iso2" -> StrVal(<<"r", "o">>)
          [] k = "sector" -> StrVal(<<"F", "i", "n">>)
          [] k = "email" -> StrVal(<<"office", "@", "bt", ".", "ro">>)] }

\* after construction of one entity: a Share or a Company
InitEntity ==
    /\ ListingIdle
    /\ HistoryIdle
    /\ FormIdle
    /\ SharesIdle
    /\ call = NoCall
    /\ ncalls = 0
    /\ \/ /\ share \in {Share_init(a).self : a \in ShareConstructions}
          /\ issuer = NewCompany
       \/ /\ share = NewShare
          /\ issuer \in {Company_init(S_NAME, S_FISCAL, NoneVal, kw).self : kw \in CompanyConstructions}

NextEntity ==
    \/ SetSymbol \/ SetIsin \/ SetShareName \/ SetCompany \/ SetTotalShares
    \/ SetFaceValue \/ SetSegment \/ SetMarket \/ SetTier \/ SetStatus
    \/ SetCompanyName \/ SetFiscalCode \/ SetNaceCode \/ SetDistrict \/ SetCountryIso2
    \/ SetSector \/ SetIndustry \/ SetCommerceRegistryCode \/ SetAddress \/ SetWebsite
    \/ SetEmail \/ SetActivityField \/ SetDescription \/ SetShareholders

SpecEntity == InitEntity /\ [][NextEntity]_vars

----------------------------------------------------------------------------
(* The listing the exchange serves *)

NumColumns == 16
ExtraColumn == NumColumns + 1       \* a column the scraper does not know

other_lang(lang) == IF lang = "RO" THEN "EN" ELSE "RO"

\* header tokens of the Romanian and of the English file, by column
served_name(lang, c) ==
    IF c = ExtraColumn THEN <<"Extra">>
    ELSE IF lang = "RO" THEN ro_en_mappings[c][1]
    ELSE expected_header_list[c]

\* data rows by column: Symbol, Security name, ISIN, Issuer, Fiscal / Unique
\* Code, Shares, Face value, CAEN Code, District, Country, Exchange segment,
\* Main Market, Tier, Status, Trading Model Type, Price steps list
RowTLV == <<
    <<"T", "L", "V">>, <<"BANCA", " ", "TRANSILVANIA">>,
    <<"R", "O", "T", "L", "V", "A", "A", "C", "N", "O", "R", "1">>,
    <<"BANCA", " ", "TRANSILVANIA", " ", "S.A.">>, <<"5", "0", "2", "2", "6", "7", "0">>,
    <<"9", "1", "6">>, <<"1", "0">>, <<"6", "4", "1", "9">>, <<"C", "L", "U", "J">>, <<"R", "O">>,
    <<"B", "S", "E">>, <<"R", "E", "G", "S">>, <<"P", "r", "e", "m", "i", "u", "m">>,
    <<"T", "r", "a", "n", "z", "a", "c", "t", "i", "o", "n", "a", "b", "i", "l", "a">>,
    <<"Continuous">>, <<"STEPS">> >>

RowSNP == <<
    <<"S", "N", "P">>, <<"OMV", " ", "PETROM">>,
    <<"R", "O", "S", "N", "P", "P", "A", "C", "N", "O", "R", "9">>,
    <<"OMV", " ", "PETROM", " ", "S.A.">>, <<"1", "5", "9", "0", "0", "8", "2">>,
    <<"6", "2", "3">>, <<"0", ",", "1">>, <<"0", "6", "1", "0">>, <<"B", "U", "C">>, <<"R", "O">>,
    <<"B", "S", "E">>, <<"R", "E", "G", "S">>, <<"P", "r", "e", "m", "i", "u", "m">>,
    <<"T", "r", "a", "n", "z", "a", "c", "t", "i", "o", "n", "a", "b", "i", "l", "a">>,
    <<"Continuous">>, <<"STEPS">> >>

\* a row without issuer name
RowNoIssuer == [RowSNP EXCEPT ![1] = <<"B", "R", "D">>, ![4] = <<>>]

\* a row whose line holds one field only
RowShort == [RowTLV EXCEPT ![1] = <<"E", "L">>]

SampleRows == <<
    [fields |-> RowTLV, keep |-> NumColumns + 1],
    [fields |-> RowSNP, keep |-> NumColumns + 1],
    [fields |-> RowNoIssuer, keep |-> NumColumns + 1],
    [fields |-> RowShort, keep |-> 1] >>

WellFormed == {1, 2}    \* the sample rows that are well formed

\* sector and industry the metadata endpoint answers for a symbol
metadata_of(symbol) ==
    IF symbol = <<"T", "L", "V">>
    THEN [sector |-> StrVal(<<"F", "i", "n">>), industry |-> StrVal(<<"B", "a", "n", "k", "s">>)]
    ELSE IF symbol = <<"S", "N", "P">>
    THEN [sector |-> StrVal(<<"E", "n", "e", "r", "g", "y">>), industry |-> StrVal(<<"O", "i", "l">>)]
    ELSE [sector |-> NoneVal, industry |-> NoneVal]

\* the canonical column order rotated by rot places
column_order(rot) == [i \in 1..NumColumns |-> ((i - 1 + rot) % NumColumns) + 1]

\* the columns of a served file, left to right
served_columns(rot, variant) ==
    CASE variant.kind = "drop" -> SelectSeq(column_order(rot), LAMBDA c : c # variant.col)
      [] variant.kind = "extra" -> Append(column_order(rot), ExtraColumn)
      [] OTHER -> column_order(rot)

\* the headers served: all columns (plain, padded with blanks, or with one
\* more column), one column missing, one column named in the other language
HeaderVariants ==
    {[kind |-> k, col |-> 0] : k \in {"plain", "padded", "extra"}}
        \cup {[kind |-> k, col |-> c] : k \in {"drop", "mixed"}, c \in 1..NumColumns}

served_header(lang, rot, variant) ==
    LET cols == served_columns(rot, variant)
    IN  join([i \in 1..Len(cols) |->
                CASE variant.kind = "padded" -> <<" ">> \o served_name(lang, cols[i]) \o <<" ">>
                  [] variant.kind = "mixed" /\ variant.col = cols[i] ->
                        served_name(other_lang(lang), cols[i])
                  [] OTHER -> served_name(lang, cols[i])], ";")

served_row(row, rot, variant) ==
    LET cols == served_columns(rot, variant)
        all == [i \in 1..Len(cols) |->
                    IF cols[i] = ExtraColumn THEN <<"x">> ELSE row.fields[cols[i]]]
    IN  join(SubSeq(all, 1, IF row.keep < Len(all) THEN row.keep ELSE Len(all)), ";")

\* the CSV body: header line and data lines, CRLF between them and, when the
\* body is terminated, after the last one
served_body(lang, rot, variant, rows, terminated) ==
    LET lines == <<served_header(lang, rot, variant)>>
                    \o [i \in 1..Len(rows) |-> served_row(SampleRows[rows[i]], rot, variant)]
    IN  join(lines, CRLF) \o (IF terminated THEN <<CRLF>> ELSE <<>>)

RowSeqs == UNION {[1..n -> 1..Len(SampleRows)] : n \in 0..MaxRows}

served_listing(lang, rot, variant, rows, terminated, down) ==
    [lang |-> lang, rot |-> rot, variant |-> variant, rows |-> rows, terminated |-> terminated,
     no_metadata |-> down, body |-> served_body(lang, rot, variant, rows, terminated)]

\* the listings served: every header with at most one data row, and every
\* sequence of data rows under the headers that hold all columns
Listings ==
    {served_listing(lang, rot, variant, rows, TRUE, {}) :
        lang \in {"RO", "EN"}, rot \in 0..MaxRot, variant \in HeaderVariants,
        rows \in {r \in RowSeqs : Len(r) <= 1}}
    \cup
    {served_listing(lang, rot, variant, rows, terminated, down) :
        lang \in {"RO", "EN"}, rot \in 0..MaxRot,
        variant \in {v \in HeaderVariants : v.kind \notin {"drop", "mixed"}},
        rows \in RowSeqs, terminated \in BOOLEAN,
        down \in SUBSET {<<"S", "N", "P">>}}

----------------------------------------------------------------------------
(* get_all_shares *)

COMPANY_HEADERS == <<<<"Issuer">>, <<"Fiscal", " ", "/", " ", "Unique", " ", "Code">>,
                     <<"CAEN", " ", "Code">>, <<"District">>, <<"Country">> >>
SYMBOL_HEADERS == <<<<"Symbol">>, <<"ISIN">>, <<"Security", " ", "name">>, <<"Shares">>,
                    <<"Face", " ", "value">>, <<"Exchange", " ", "segment">>,
                    <<"Main", " ", "Market">>, <<"Tier">> >>

\* {"Issuer": header_list.index("Issuer"), ...}
headers_index(names, headers) == [h \in Range(names) |-> index(headers, h)]

\* the try block of one loop iteration: the metadata request, the Company and
\* the Share of one line.  exc is what the block raises, requested the symbol
\* the metadata request went out for (Unset when it was not reached).
process_line(response_line, company_index, symbol_index, no_metadata) ==
    LET response_line_list == split(response_line, ";")
        has(i) == InRange(response_line_list, i)
        at(i) == StrVal(item(response_line_list, i))
        sym == symbol_index[<<"Symbol">>]
        failed(type, c, requested) ==
            [exc |-> [type |-> type], company |-> c, share |-> Unset, requested |-> requested]
    IN  IF ~has(sym) THEN failed("IndexError", Unset, Unset)
        ELSE LET symbol == item(response_line_list, sym)
                 metadata == metadata_of(symbol)
             IN
        IF symbol \in no_metadata THEN failed("ValueError", Unset, StrVal(symbol))
        ELSE IF \E h \in DOMAIN company_index : ~has(company_index[h])
             THEN failed("IndexError", Unset, StrVal(symbol))
        ELSE LET built == Company_init(
                            at(company_index[<<"Issuer">>]),
                            at(company_index[<<"Fiscal", " ", "/", " ", "Unique", " ", "Code">>]),
                            NoneVal,
                            [k \in {"caen_code", "district", "country_iso2", "sector", "industry"} |->
                                CASE k = "caen_code" -> at(company_index[<<"CAEN", " ", "Code">>])
                                  [] k = "district" -> at(company_index[<<"District">>])
                                  [] k = "country_iso2" -> at(company_index[<<"Country">>])
                                  [] k = "sector" -> metadata.sector
                                  [] k = "industry" -> metadata.industry])
             IN
        IF built.exc # NoExc THEN failed(built.exc.type, Unset, StrVal(symbol))
        ELSE IF \E h \in DOMAIN symbol_index : ~has(symbol_index[h])
             THEN failed("IndexError", built.self, StrVal(symbol))
        ELSE LET made == Share_init(
                            [k \in {"symbol", "isin", "name", "company", "total_shares",
                                    "face_value", "segment", "market", "tier"} |->
                                CASE k = "symbol" -> at(symbol_index[<<"Symbol">>])
                                  [] k = "isin" -> at(symbol_index[<<"ISIN">>])
                                  [] k = "name" -> at(symbol_index[<<"Security", " ", "name">>])
                                  [] k = "company" -> CompanyVal(built.self)
                                  [] k = "total_shares" -> at(symbol_index[<<"Shares">>])
                                  [] k = "face_value" -> at(symbol_index[<<"Face", " ", "value">>])
                                  [] k = "segment" -> at(symbol_index[<<"Exchange", " ", "segment">>])
                                  [] k = "market" -> at(symbol_index[<<"Main", " ", "Market">>])
                                  [] k = "tier" -> at(symbol_index[<<"Tier">>])])
             IN
        IF made.exc # NoExc THEN failed(made.exc.type, built.self, StrVal(symbol))
        ELSE [exc |-> NoExc, company |-> built.self, share |-> made.self, requested |-> StrVal(symbol)]

\* lines 787-818: the listing GET, the header and the column indexes
Fetch ==
    /\ pc = "start"
    /\ LET lines == split(listing.body, CRLF)
           kept == SubSeq(lines, 1, Len(lines) - 1)          \* [:-1]
           pre == preprocess_SharesListForDownload_header(kept[1])
           checked == validate_SharesListForDownload_header(pre.headers)
       IN  /\ requests' = Append(requests, [url |-> "SharesListForDownload", symbol |-> Unset])
           /\ response_lines' = kept
           /\ IF kept = <<>>
              THEN /\ pc' = "raised"
                   /\ outcome' = [type |-> "IndexError"]         \* response_lines[0]
                   /\ UNCHANGED <<header_list, warned, company_headers_index, symbol_headers_index>>
              ELSE /\ header_list' = pre.headers
                   /\ warned' = pre.warnings
                   /\ IF checked # NoExc
                      THEN /\ pc' = "raised"
                           /\ outcome' = checked
                           /\ UNCHANGED <<company_headers_index, symbol_headers_index>>
                      ELSE /\ pc' = "loop"
                           /\ company_headers_index' = headers_index(COMPANY_HEADERS, pre.headers)
                           /\ symbol_headers_index' = headers_index(SYMBOL_HEADERS, pre.headers)
                           /\ UNCHANGED outcome
    /\ UNCHANGED <<listing, line_no, share_list, company, entity_vars, history_vars, form_vars, shares_vars>>

\* the iteration, had its handler skipped the line instead of raising
ProcessLine_skipping ==
    /\ pc = "loop"
    /\ line_no < Len(response_lines) - 1
    /\ LET response_line == response_lines[line_no + 2]
           done == process_line(response_line, company_headers_index, symbol_headers_index,
                                listing.no_metadata)
       IN  /\ requests' = IF done.requested = Unset THEN requests
                          ELSE Append(requests, [url |-> "symbols", symbol |-> done.requested])
           /\ company' = IF done.company = Unset THEN company ELSE done.company
           /\ share_list' = IF done.exc # NoExc THEN share_list ELSE Append(share_list, done.share)
           /\ line_no' = line_no + 1
           /\ UNCHANGED <<pc, outcome>>
    /\ UNCHANGED <<listing, header_list, company_headers_index, symbol_headers_index,
                   response_lines, warned, entity_vars, history_vars, form_vars, shares_vars>>

\* lines 823-857: one iteration of the loop over response_lines[1:]
ProcessLine ==
    /\ pc = "loop"
    /\ line_no < Len(response_lines) - 1
    /\ LET response_line == response_lines[line_no + 2]
           done == process_line(response_line, company_headers_index, symbol_headers_index,
                                listing.no_metadata)
       IN  /\ requests' = IF done.requested = Unset THEN requests
                          ELSE Append(requests, [url |-> "symbols", symbol |-> done.requested])
           /\ company' = IF done.company = Unset THEN company ELSE done.company
           /\ IF done.exc # NoExc
              THEN /\ pc' = "raised"
                   /\ outcome' = [type |-> "Exception",
                                  leading |-> item(split(response_line, ";"), 0)]
                   /\ UNCHANGED <<share_list, line_no>>
              ELSE /\ share_list' = Append(share_list, done.share)
                   /\ line_no' = line_no + 1
                   /\ UNCHANGED <<pc, outcome>>
    /\ UNCHANGED <<listing, header_list, company_headers_index, symbol_headers_index,
                   response_lines, warned, entity_vars, history_vars, form_vars, shares_vars>>

\* line 859: return share_list
Return ==
    /\ pc = "loop"
    /\ line_no = Len(response_lines) - 1
    /\ pc' = "returned"
    /\ outcome' = [type |-> "list", value |-> share_list]
    /\ UNCHANGED <<listing, header_list, company_headers_index, symbol_headers_index,
                   response_lines, line_no, share_list, company, requests, warned, entity_vars, history_vars, form_vars, shares_vars>>

Init ==
    /\ listing \in Listings
    /\ pc = "start"
    /\ header_list = <<>>
    /\ company_headers_index = <<>>
    /\ symbol_headers_index = <<>>
    /\ response_lines = <<>>
    /\ line_no = 0
    /\ share_list = <<>>
    /\ company = Unset
    /\ requests = <<>>
    /\ warned = <<>>
    /\ outcome = Unset
    /\ EntityIdle
    /\ HistoryIdle
    /\ FormIdle
    /\ SharesIdle

Next == Fetch \/ ProcessLine \/ Return

Spec == Init /\ [][Next]_vars

----------------------------------------------------------------------------
(* Properties of get_all_shares *)

Finished == pc \in {"returned", "raised"}

\* the data lines get_all_shares iterates over
data_lines == SubSeq(response_lines, 2, Len(response_lines))

\* a valid header, well-formed CRLF-terminated rows, metadata for every symbol
WellServed ==
    /\ listing.variant.kind \in {"plain", "padded", "extra"}
    /\ listing.terminated
    /\ \A i \in 1..Len(listing.rows) :
        /\ listing.rows[i] \in WellFormed
        /\ SampleRows[listing.rows[i]].fields[1] \notin listing.no_metadata

\* the field of column c that sample row number r provides
provided(r, c) == SampleRows[r].fields[c]

\* C1: given a valid header, n well-formed CRLF-terminated rows and a metadata
\* endpoint that answers every symbol, get_all_shares returns exactly n Shares,
\* their symbols the rows' symbols in file order, each owning the Company
\* built from its row.
C1_OneSharePerRow ==
    (Finished /\ WellServed) =>
        /\ outcome.type = "list"
        /\ Len(outcome.value) = Len(listing.rows)
        /\ \A i \in 1..Len(listing.rows) :
            /\ get(outcome.value[i], "symbol") = StrVal(provided(listing.rows[i], 1))
            /\ get(get(outcome.value[i], "company").obj, "name") = StrVal(provided(listing.rows[i], 4))

\* C2: when the Company or the Share of a data row cannot be built, the call
\* raises an exception that shows the leading field of that row; the caller
\* gets no list, the rows after it are not processed, and a list that is
\* returned holds a Share for every data row.
C2_FailFast ==
    /\ (pc = "raised" /\ outcome.type = "Exception") =>
        /\ line_no < Len(data_lines)
        /\ process_line(data_lines[line_no + 1], company_headers_index, symbol_headers_index,
                        listing.no_metadata).exc # NoExc
        /\ outcome.leading = split(data_lines[line_no + 1], ";")[1]
        /\ "value" \notin DOMAIN outcome
        /\ Len(share_list) = line_no
        /\ Len(requests) <= line_no + 2
    /\ pc = "returned" =>
        /\ outcome.type = "list"
        /\ Len(outcome.value) = Len(data_lines)
        /\ \A i \in 1..Len(data_lines) :
            process_line(data_lines[i], company_headers_index, symbol_headers_index,
                         listing.no_metadata).exc = NoExc

\* C2 witness: a run that raised on the first of two data rows
C2_Witness ==
    /\ pc = "raised" /\ outcome.type = "Exception"
    /\ Len(data_lines) = 2 /\ line_no = 0
    /\ listing.rot > 0

\* the row the latest iteration worked on
current_row == listing.rows[IF pc = "raised" THEN line_no + 1 ELSE line_no]

\* C3: the info of what the listing scraper builds from a row reproduces
\* every field the row provides, changed only by the documented normalisation;
\* no provided field reads back as absent.
C3_InfoRoundTrip ==
    /\ (pc \in {"loop", "returned", "raised"} /\ company # Unset /\ listing.variant.kind # "drop") =>
        /\ Company_info(company).company_name = StrVal(provided(current_row, 4))
        /\ Company_info(company).fiscal_code = StrVal(provided(current_row, 5))
        /\ Company_info(company).nace_code = StrVal(provided(current_row, 8))
        /\ Company_info(company).district = StrVal(provided(current_row, 9))
        /\ Company_info(company).country_iso2 = StrVal(provided(current_row, 10))
    /\ \A i \in 1..Len(share_list) :
        /\ Share_info(share_list[i]).symbol = StrVal(provided(listing.rows[i], 1))
        /\ Share_info(share_list[i]).isin = StrVal(provided(listing.rows[i], 3))
        /\ Share_info(share_list[i]).share_name = StrVal(provided(listing.rows[i], 2))
        /\ Share_info(share_list[i]).total_shares = IntVal(digits_value(provided(listing.rows[i], 6)))
        /\ Share_info(share_list[i]).face_value # NoneVal
        /\ Share_info(share_list[i]).segment = StrVal(provided(listing.rows[i], 11))
        /\ Share_info(share_list[i]).market = StrVal(provided(listing.rows[i], 12))
        /\ Share_info(share_list[i]).tier = StrVal(upper(provided(listing.rows[i], 13)))

\* the header line as served, split and stripped
raw_tokens == split(response_lines[1], ";")
stripped_tokens == [i \in 1..Len(raw_tokens) |-> strip(raw_tokens[i])]
HeaderRead == pc # "start" /\ response_lines # <<>>
RomanianNames == {served_name("RO", c) : c \in 1..NumColumns}

\* C6: the header is accepted if and only if all 16 canonical column names
\* occur in it, in any order and with any extra columns; otherwise a KeyError
\* names an expected header that is missing and no Share is built.
C6_HeaderValidation ==
    HeaderRead =>
        IF \A c \in 1..NumColumns : ro_en_mappings[c][2] \in Range(header_list)
        THEN ~(pc = "raised" /\ outcome.type = "KeyError")
        ELSE /\ pc = "raised" /\ outcome.type = "KeyError"
             /\ outcome.header \in {ro_en_mappings[c][2] : c \in 1..NumColumns}
             /\ outcome.header \notin Range(header_list)
             /\ share_list = <<>> /\ company = Unset
             /\ Len(requests) = 1

\* C6 witness: a rotated header without its last canonical column was rejected
C6_Witness ==
    /\ pc = "raised" /\ outcome.type = "KeyError"
    /\ outcome.header = <<"Price", " ", "steps", " ", "list">>
    /\ listing.rot > 0

\* C7: on a header row that holds the token Simbol, each of the 16 Romanian
\* tokens is replaced by its English name at the same position, every other
\* token passes through unchanged, one warning is emitted per unmapped token,
\* and length and order of the token list are kept.
C7_RomanianHeaderMapped ==
    HeaderRead =>
        LET tokens == stripped_tokens
            column(t) == CHOOSE c \in 1..NumColumns : served_name("RO", c) = t
        IN  <<"Simbol">> \in Range(tokens) =>
                /\ Len(header_list) = Len(raw_tokens)
                /\ header_list = [i \in 1..Len(tokens) |->
                                    IF tokens[i] \in RomanianNames
                                    THEN served_name("EN", column(tokens[i]))
                                    ELSE tokens[i]]
                /\ warned = SelectSeq(tokens, LAMBDA t : t \notin RomanianNames)

\* C7 witness: a Romanian header with one unknown column gave one warning
C7_Witness ==
    /\ HeaderRead /\ listing.lang = "RO" /\ listing.variant.kind = "extra"
    /\ warned = << <<"Extra">> >>
    /\ header_list[1] # <<"Symbol">>

\* C8: for an ordering of the 16 columns the Romanian and the English header
\* row normalise to the same token list, validation passes for both and the
\* column indexes built from them are identical.
C8_LanguageTransparent ==
    (HeaderRead /\ listing.variant.kind \in {"plain", "padded", "extra"}) =>
        LET other == preprocess_SharesListForDownload_header(
                        served_header(other_lang(listing.lang), listing.rot, listing.variant)).headers
        IN  /\ other = header_list
            /\ validate_SharesListForDownload_header(other) = NoExc
            /\ ~(pc = "raised" /\ outcome.type = "KeyError")
            /\ headers_index(COMPANY_HEADERS, other) = company_headers_index
            /\ headers_index(SYMBOL_HEADERS, other) = symbol_headers_index

\* C8 witness: a rotated Romanian header was read and the loop was entered
C8_Witness ==
    /\ pc = "raised" /\ outcome.type = "Exception"
    /\ listing.lang = "RO" /\ listing.rot > 0 /\ listing.variant.kind = "plain"
    /\ symbol_headers_index[<<"Symbol">>] > 0

\* C9: normalising a header, joining the result with ";" and normalising
\* again gives the same token list and no warning; an English header list is
\* returned unchanged.
C9_NormalisationIdempotent ==
    HeaderRead =>
        LET again == preprocess_SharesListForDownload_header(join(header_list, ";"))
        IN  /\ again.headers = header_list
            /\ again.warnings = <<>>
            /\ (listing.lang = "EN" /\ listing.variant.kind \in {"plain", "extra", "drop"}) =>
                    header_list = raw_tokens

\* C9 witness: a header that mixes the languages was normalised with warnings
C9_Witness ==
    /\ HeaderRead /\ listing.variant.kind = "mixed" /\ listing.lang = "RO"
    /\ Len(warned) = 1
    /\ <<"Symbol">> \in Range(header_list)

\* the number of data rows the loop has worked on, the failing one included
processed == IF pc = "raised" /\ outcome.type = "Exception" THEN line_no + 1 ELSE line_no

\* C25: the listing GET is the first request of a call; the metadata requests
\* follow it in file order, exactly one for each data row the loop has worked
\* on, none for a symbol already asked, none after the row that failed.
C25_MetadataRequests ==
    pc # "start" =>
        /\ requests[1] = [url |-> "SharesListForDownload", symbol |-> Unset]
        /\ Len(requests) = processed + 1
        /\ \A i \in 1..(Len(requests) - 1) :
            /\ i <= processed
            /\ requests[i + 1] = [url |-> "symbols",
                                  symbol |-> StrVal(provided(listing.rows[i], 1))]
        /\ \A i, j \in 2..Len(requests) : requests[i] = requests[j] => i = j
        /\ pc = "raised" => Len(requests) <= line_no + 2

----------------------------------------------------------------------------
(* Properties of the setters *)

Called == call # NoCall

\* the object the latest call was made on
target == IF call.object = "Share" THEN share ELSE issuer

\* the call went to a field a constructor insists on
IsRequired == \/ call.object = "Share" /\ call.field = "symbol"
              \/ call.object = "Company" /\ call.field \in {"name", "fiscal_code"}

\* C4: a setter called with a non-empty value either stores the normalised
\* value or raises; a value that violates the format of the field is never
\* dropped with the field unchanged and no error ("-" is the placeholder of
\* an absent value).
C4_StoreOrRaise ==
    (Called /\ Truthy(call.value) /\ call.value # StrVal(<<"-">>)) =>
        \/ call.did = "stored" /\ get(target, call.field) # NoneVal
        \/ call.did = "raised" /\ target = call.before

\* C5: an optional field that was never assigned reads back None, and one
\* that was assigned a falsy value (0, "", []) reads back something else than
\* the never-assigned field does.
C5_FalsyDistinguishable ==
    /\ \A f \in ShareFields : share[f] = Unset => get(share, f) = NoneVal
    /\ \A f \in CompanyFields : issuer[f] = Unset => get(issuer, f) = NoneVal
    /\ (Called /\ ~IsRequired /\ call.value \in {IntVal(0), StrVal(<<>>), ListVal(<<>>)}) =>
            get(target, call.field) # NoneVal

IsinCall == Called /\ call.object = "Share" /\ call.field = "isin"
ValidIsin(v) == v.t = "str" /\ (\E x \in up_to_dollar(v.s) : isin_pattern(x))

NumberCall == Called /\ call.object = "Share" /\ call.field \in {"total_shares", "face_value"}

\* the value stands for an absent one: it is falsy or holds the placeholder only
Absent(v) == ~Truthy(v) \/ (v.t = "str" /\ strip(remove(v.s, "-")) = <<>>)

\* the value is a number or the text of one (comma or point as decimal separator)
Coercible(f, v) ==
    \/ v.t \in {"int", "float"}
    \/ /\ v.t = "str"
       /\ IF f = "total_shares" THEN int_of(v).ok ELSE float_of(replace(v.s, ",", ".")).ok

\* C11: a value given to Share.total_shares or Share.face_value that cannot be
\* coerced to a number raises TypeError and leaves the field as it was, it
\* is never dropped without an error; total_shares is stored only as a
\* positive integer.
C11_NumericCoercion ==
    NumberCall =>
        /\ (~Absent(call.value) /\ ~Coercible(call.field, call.value)) =>
                /\ call.did = "raised" /\ call.exc.type = "TypeError"
                /\ share[call.field] = call.before[call.field]
        /\ (call.field = "total_shares" /\ call.did = "stored") =>
                share.total_shares.t = "int" /\ share.total_shares.n > 0

FaceValueCall == Called /\ call.object = "Share" /\ call.field = "face_value"

\* digits "," digits
CommaDecimal(s) ==
    \E k \in 2..(Len(s) - 1) :
        s[k] = "," /\ all_in(SubSeq(s, 1, k - 1) \o SubSeq(s, k + 1, Len(s)), Digits)

\* C12: Share.face_value parses a string with a comma as decimal separator
\* to the number it writes ("1,50" gives 1.5); a string that holds only the
\* placeholder "-" stores nothing: the field keeps what it held, an absent
\* field stays absent and does not become zero.
C12_FaceValueParsing ==
    (FaceValueCall /\ call.value.t = "str") =>
        /\ CommaDecimal(call.value.s) =>
                LET s == call.value.s
                    k == CHOOSE i \in 1..Len(s) : s[i] = ","
                    written == digits_value(SubSeq(s, 1, k - 1) \o SubSeq(s, k + 1, Len(s)))
                IN  /\ call.did = "stored" /\ share.face_value.t = "float"
                    /\ share.face_value.num * pow10(Len(s) - k) = written * share.face_value.den
        /\ call.value = StrVal(<<"1", ",", "5", "0">>) =>
                share.face_value.num * 2 = 3 * share.face_value.den
        /\ (call.value.s # <<>> /\ all_in(call.value.s, {"-"})) =>
                /\ call.did = "ignored" /\ share = call.before
                /\ call.before.face_value = Unset => get(share, "face_value") = NoneVal

\* C12 witness: "1,50" was assigned to a Share without face value and 1.5 is stored
C12_Witness ==
    /\ FaceValueCall /\ call.value = StrVal(<<"1", ",", "5", "0">>)
    /\ call.before.face_value = Unset
    /\ call.did = "stored" /\ share.face_value.num * 2 = 3 * share.face_value.den

\* C13: after a setter has stored a value, assigning the same value again,
\* as it was given or as the getter returns it, raises nothing and leaves
\* every field of the object as it was.
C13_SettersIdempotent ==
    (Called /\ call.did = "stored") =>
        \A w \in {call.value, get(target, call.field)} :
            LET again == IF call.object = "Share"
                         THEN Share_setattr(share, call.field, w)
                         ELSE Company_setattr(issuer, call.field, w)
            IN  again.exc = NoExc /\ again.self = target

\* a Share was constructed
Constructed == share # NewShare

\* the field has no value
NoValue(f) == get(share, f) = NoneVal

\* the field holds a string of the set
OneOf(f, S) == get(share, f).t = "str" /\ get(share, f).s \in S

\* C28: whatever setter calls a constructed Share went through, succeeding
\* or raising, its symbol is a non-empty string of upper-case letters and
\* digits, its market, segment, tier and status are a member of their
\* enumeration or no value, and its total_shares is a positive integer or no
\* value.
C28_ShareFieldsValid ==
    Constructed =>
        /\ get(share, "symbol").t = "str"
        /\ get(share, "symbol").s # <<>>
        /\ all_in(get(share, "symbol").s, Upper \cup Digits)
        /\ NoValue("market")
            \/ OneOf("market", {<<"R", "E", "G", "S">>, <<"X", "R", "S", "1">>, <<"X", "R", "S", "I">>})
        /\ NoValue("segment")
            \/ OneOf("segment", {<<"B", "S", "E">>, <<"B", "E", "R">>, <<"A", "T", "S">>})
        /\ NoValue("tier") \/ OneOf("tier", valid_tiers)
        /\ NoValue("status")
            \/ OneOf("status", {<<"T", "R", "A", "D", "E", "A", "B", "L", "E">>,
                                <<"S", "U", "S", "P", "E", "N", "D", "E", "D">>})
        /\ NoValue("total_shares")
            \/ (get(share, "total_shares").t = "int" /\ get(share, "total_shares").n > 0)

\* C29: a setter call on a constructed Share or Company that raises leaves
\* every field of the object, the targeted one included, as it was before
\* the call; assigning None or the empty string to an optional field raises
\* nothing and changes no field either.
C29_FailedCallsChangeNothing ==
    Called =>
        /\ call.exc # NoExc => target = call.before
        /\ (~IsRequired /\ call.value \in {NoneVal, StrVal(<<>>)}) =>
                call.exc = NoExc /\ target = call.before

\* C29 witness: the second call on a Share raised for a total_shares that is
\* not positive, the field holding a value from before
C29_Witness ==
    /\ Called /\ call.object = "Share" /\ call.field = "total_shares"
    /\ call.exc.type = "ValueError"
    /\ call.before["total_shares"] # Unset
    /\ share = call.before
    /\ ncalls = 2

----------------------------------------------------------------------------
(* get_history (the build/lib variant of ScraperService) *)

\* datetime.datetime(y, m, d) plus sec seconds; aware: tzinfo is UTC, else naive
datetime(y, m, d, sec, aware) ==
    [t |-> "datetime", y |-> y, m |-> m, d |-> d, sec |-> sec, aware |-> aware]

BoolVal(b) == [t |-> "bool", b |-> b]

HISTORY_INTERVALS == <<
    [key |-> <<"1", "M", "I", "N">>, dt |-> "INTRA", p |-> "intraday_1"],
    [key |-> <<"5", "M", "I", "N">>, dt |-> "INTRA", p |-> "intraday_5"],
    [key |-> <<"1", "5", "M", "I", "N">>, dt |-> "INTRA", p |-> "intraday_15"],
    [key |-> <<"3", "0", "M", "I", "N">>, dt |-> "INTRA", p |-> "intraday_30"],
    [key |-> <<"1", "H">>, dt |-> "INTRA", p |-> "intraday_60"],
    [key |-> <<"1", "D">>, dt |-> "DAILY", p |-> "day"],
    [key |-> <<"1", "W">>, dt |-> "DAILY", p |-> "week"],
    [key |-> <<"1", "M">>, dt |-> "MONTH", p |-> "month"] >>

\* timedelta(days) and relativedelta(weeks, months, years) as years, months, days
HISTORY_PERIODS == <<
    [key |-> <<"1", "D">>, delta |-> [years |-> 0, months |-> 0, days |-> 1]],
    [key |-> <<"5", "D">>, delta |-> [years |-> 0, months |-> 0, days |-> 5]],
    [key |-> <<"1", "W">>, delta |-> [years |-> 0, months |-> 0, days |-> 7]],
    [key |-> <<"2", "W">>, delta |-> [years |-> 0, months |-> 0, days |-> 14]],
    [key |-> <<"1", "M">>, delta |-> [years |-> 0, months |-> 1, days |-> 0]],
    [key |-> <<"3", "M">>, delta |-> [years |-> 0, months |-> 3, days |-> 0]],
    [key |-> <<"6", "M">>, delta |-> [years |-> 0, months |-> 6, days |-> 0]],
    [key |-> <<"1", "Y">>, delta |-> [years |-> 1, months |-> 0, days |-> 0]],
    [key |-> <<"2", "Y">>, delta |-> [years |-> 2, months |-> 0, days |-> 0]],
    [key |-> <<"5", "Y">>, delta |-> [years |-> 5, months |-> 0, days |-> 0]],
    [key |-> <<"1", "0", "Y">>, delta |-> [years |-> 10, months |-> 0, days |-> 0]],
    [key |-> <<"Y", "T", "D">>, delta |-> NoneVal],
    [key |-> <<"M", "A", "X">>, delta |-> NoneVal] >>

MIN_START_DATE == datetime(1970, 1, 1, 0, TRUE)

days_in_month(y, m) ==
    IF m = 2 THEN (IF y % 4 = 0 /\ (y % 100 # 0 \/ y % 400 = 0) THEN 29 ELSE 28)
    ELSE IF m \in {4, 6, 9, 11} THEN 30 ELSE 31

\* datetime.timestamp(dt): seconds since 1970-01-01T00:00:00Z; a naive dt is
\* read as local time, utcoffset seconds east of UTC
timestamp(dt, utcoffset) ==
    LET before_year == (dt.y - 1) * 365 + (dt.y - 1) \div 4 - (dt.y - 1) \div 100 + (dt.y - 1) \div 400
        before_month == <<0, 31, 59, 90, 120, 151, 181, 212, 243, 273, 304, 334>>[dt.m]
                        + (IF dt.m > 2 /\ days_in_month(dt.y, 2) = 29 THEN 1 ELSE 0)
        ordinal == before_year + before_month + dt.d
    IN  (ordinal - 719163) * 86400 + dt.sec - (IF dt.aware THEN 0 ELSE utcoffset)

\* datetime.fromtimestamp(ts, tz=utc)
fromtimestamp(ts) ==
    LET z == ts \div 86400 + 719468
        era == z \div 146097
        doe == z - era * 146097
        yoe == (doe - doe \div 1460 + doe \div 36524 - doe \div 146096) \div 365
        doy == doe - (365 * yoe + yoe \div 4 - yoe \div 100)
        mp == (5 * doy + 2) \div 153
        m == IF mp < 10 THEN mp + 3 ELSE mp - 9
    IN  datetime(yoe + era * 400 + (IF m <= 2 THEN 1 ELSE 0), m,
                 doy - (153 * mp + 2) \div 5 + 1, ts % 86400, TRUE)

\* dt - delta: the years and months first, the day cut to the month's length,
\* then the days
minus_delta(dt, delta) ==
    LET months == (dt.y - delta.years) * 12 + (dt.m - 1) - delta.months
        y == months \div 12
        m == (months % 12) + 1
        d == IF dt.d > days_in_month(y, m) THEN days_in_month(y, m) ELSE dt.d
        moved == fromtimestamp(timestamp(datetime(y, m, d, dt.sec, TRUE), 0) - delta.days * 86400)
    IN  [moved EXCEPT !.aware = dt.aware]

\* datetime.strptime(s, "%Y-%m-%d"): [ok, dt]; ok = FALSE is its ValueError
strptime(s) ==
    LET parts == split(s, "-")
        wellformed == /\ Len(parts) = 3
                      /\ Len(parts[1]) = 4 /\ Len(parts[2]) \in {1, 2} /\ Len(parts[3]) \in {1, 2}
                      /\ \A i \in 1..3 : all_in(parts[i], Digits)
        y == digits_value(parts[1])
        m == digits_value(parts[2])
        d == digits_value(parts[3])
    IN  IF wellformed /\ y >= 1 /\ m \in 1..12 /\ d >= 1 /\ d <= days_in_month(y, m)
        THEN [ok |-> TRUE, dt |-> datetime(y, m, d, 0, FALSE)]
        ELSE [ok |-> FALSE, dt |-> NoneVal]

\* utils.get_url_response / utils.post_request, given the response of the
\* server: the exception raised, or NoExc when the response is returned
get_url_response(response) ==
    IF response.status_code # 200 /\ response.text = <<>>
    THEN [type |-> "ValueError", message |-> "Response is not valid."]
    ELSE NoExc

\* lines 547-593, for the arguments and the clock a: the range asked for as
\* [exc, start, end]
resolve_range(a) ==
    LET failed(type, message) ==
            [exc |-> [type |-> type, message |-> message], start |-> Unset, end |-> Unset]
        started == IF a.start_date.t = "str" THEN strptime(a.start_date.s)
                   ELSE [ok |-> TRUE, dt |-> a.start_date]
        ended == IF a.end_date.t # "str" THEN [ok |-> TRUE, dt |-> a.end_date]
                 ELSE IF upper(a.end_date.s) = <<"N", "O", "W">> THEN [ok |-> TRUE, dt |-> a.now]
                 ELSE strptime(a.end_date.s)
        period == upper(a.period.s)
        known == \E i \in 1..Len(HISTORY_PERIODS) : HISTORY_PERIODS[i].key = period
        delta == HISTORY_PERIODS[CHOOSE i \in 1..Len(HISTORY_PERIODS) :
                                    HISTORY_PERIODS[i].key = period].delta
    IN  IF Truthy(a.start_date) /\ Truthy(a.end_date)
        THEN IF ~started.ok THEN failed("ValueError", "Start date cannot be converted")
             ELSE IF started.dt.t # "datetime" THEN failed("TypeError", "Start date not of type")
             \* start_date < _MIN_START_DATE, an aware datetime
             ELSE IF ~started.dt.aware THEN failed("TypeError", "can't compare offset-naive and offset-aware")
             ELSE IF timestamp(started.dt, 0) < timestamp(MIN_START_DATE, 0)
                  THEN failed("ValueError", "Timestamp ranges between 1970 -> 2038")
             ELSE IF ~ended.ok THEN failed("ValueError", "End date cannot be converted")
             ELSE IF ended.dt.t # "datetime" THEN failed("TypeError", "End date is not of type")
             ELSE [exc |-> NoExc, start |-> started.dt, end |-> ended.dt]
        ELSE IF a.period.t # "str" THEN failed("TypeError", "Period must be of type str.")
             ELSE IF ~known THEN failed("ValueError", "Invalid period.")
             ELSE [exc |-> NoExc,
                   end |-> a.now,
                   start |-> IF period = <<"Y", "T", "D">> THEN [a.now EXCEPT !.m = 1, !.d = 1]
                             ELSE IF period = <<"M", "A", "X">>
                                  THEN (IF Truthy(a.share.start_trading_date)
                                        THEN a.share.start_trading_date ELSE MIN_START_DATE)
                             ELSE minus_delta(a.now, delta)]

\* lines 541-628: the checks, the range, the URL and the GET
RequestHistory ==
    /\ history_pc = "start"
    /\ LET a == history_call
           range == resolve_range(a)
           interval == upper(a.interval)
           known == \E i \in 1..Len(HISTORY_INTERVALS) : HISTORY_INTERVALS[i].key = interval
           exact == \E i \in 1..Len(HISTORY_INTERVALS) : HISTORY_INTERVALS[i].key = a.interval
           entry == HISTORY_INTERVALS[CHOOSE i \in 1..Len(HISTORY_INTERVALS) :
                                         HISTORY_INTERVALS[i].key = a.interval]
           exc == IF a.share.t # "Share"
                  THEN [type |-> "TypeError", message |-> "Provided share is not type of Share."]
                  ELSE IF a.period = NoneVal /\ a.start_date = NoneVal /\ a.end_date = NoneVal
                  THEN [type |-> "ValueError", message |-> "Period or start and end date must be provided."]
                  ELSE IF range.exc # NoExc THEN range.exc
                  ELSE IF ~known THEN [type |-> "ValueError", message |-> "Invalid interval."]
                  ELSE IF a.adjusted.t # "bool"
                  THEN [type |-> "TypeError", message |-> "Parameter adjusted must be of type bool."]
                  ELSE IF ~exact THEN [type |-> "KeyError", message |-> "interval"]
                  ELSE NoExc
           checked == a.share.t = "Share" /\ ~(a.period = NoneVal /\ a.start_date = NoneVal /\ a.end_date = NoneVal)
       IN  /\ start_date' = IF checked THEN range.start ELSE Unset
           /\ end_date' = IF checked THEN range.end ELSE Unset
           /\ IF exc # NoExc
              THEN /\ history_pc' = "raised"
                   /\ history_outcome' = exc
                   /\ UNCHANGED history_requests
              ELSE /\ history_pc' = "requested"
                   /\ history_requests' = Append(history_requests,
                          [url |-> "https://wapi.bvb.ro/api/history", symbol |-> a.share.symbol,
                           dt |-> entry.dt, p |-> entry.p,
                           ajust |-> IF a.adjusted.b THEN 1 ELSE 0,
                           from |-> timestamp(range.start, a.utcoffset),
                           to |-> timestamp(range.end, a.utcoffset),
                           Referer |-> "https://bvb.ro/"])
                   /\ UNCHANGED history_outcome
    /\ UNCHANGED <<history_call, history_api, listing_vars, entity_vars, form_vars, shares_vars>>

\* lines 628-637: the response, its JSON and the format asked for
ReceiveHistory ==
    /\ history_pc = "requested"
    /\ LET share_history == history_api.json
           invalid == get_url_response(history_api)
           columns == {"t", "o", "h", "l", "c", "v"} \cap DOMAIN share_history
           result ==
               IF invalid # NoExc THEN invalid
               ELSE IF share_history = Unset
                    THEN [type |-> "JSONDecodeError", message |-> "Expecting value"]
               ELSE IF history_call.format = "json"
                    THEN [type |-> "returned", value |-> share_history]
               ELSE IF history_call.format = "dataframe"
                    THEN IF columns = {}
                         THEN [type |-> "ValueError",
                               message |-> "If using all scalar values, you must pass an index"]
                         ELSE IF "t" \notin columns
                         THEN [type |-> "AttributeError", message |-> "date"]
                         ELSE [type |-> "returned",
                               value |-> [t |-> "DataFrame",
                                          index |-> [i \in 1..Len(share_history.t) |->
                                                        fromtimestamp(share_history.t[i])],
                                          open |-> share_history.o, high |-> share_history.h,
                                          low |-> share_history.l, closing |-> share_history.c,
                                          volume |-> share_history.v]]
               ELSE [type |-> "returned", value |-> NoneVal]
       IN  /\ history_outcome' = result
           /\ history_pc' = IF result.type = "returned" THEN "returned" ELSE "raised"
    /\ UNCHANGED <<history_call, history_api, start_date, end_date, history_requests,
                   listing_vars, entity_vars, form_vars, shares_vars>>

\* a call of get_history, the clock at that moment and the answer of the endpoint
InitHistory ==
    /\ ListingIdle
    /\ EntityIdle
    /\ FormIdle
    /\ SharesIdle
    /\ history_pc = "start"
    /\ start_date = Unset
    /\ end_date = Unset
    /\ history_requests = <<>>
    /\ history_outcome = Unset
    /\ LET point == 1718409600                    \* 2024-06-15T00:00:00Z
           ok == [s |-> "ok", t |-> <<point - 86400, point>>, o |-> <<27, 28>>, h |-> <<29, 30>>,
                  l |-> <<26, 27>>, c |-> <<28, 29>>, v |-> <<1000, 1200>>]
           answers == {
               [status_code |-> 200, text |-> <<"{s:ok}">>, json |-> ok],
               [status_code |-> 200, text |-> <<"{s:no_data}">>,
                json |-> [s |-> "no_data", nextTime |-> point]],
               [status_code |-> 200, text |-> <<"{s:error}">>,
                json |-> [s |-> "error", errmsg |-> "unknown_symbol"]],
               [status_code |-> 200, text |-> <<>>, json |-> Unset],
               [status_code |-> 500, text |-> <<>>, json |-> Unset],
               [status_code |-> 404, text |-> <<"<html>">>, json |-> Unset] }
           plain == [t |-> "Share", symbol |-> S_TLV, start_trading_date |-> NoneVal]
           shares == {plain,
                      [plain EXCEPT !.start_trading_date = datetime(2010, 1, 4, 0, FALSE)],
                      S_TLV}
           clocks == {datetime(2024, 6, 15, 0, TRUE), datetime(2024, 3, 31, 43200, TRUE)}
           periods == {NoneVal, StrVal(<<"1", "D">>), StrVal(<<"2", "w">>), StrVal(<<"1", "M">>),
                       StrVal(<<"1", "Y">>), StrVal(<<"y", "t", "d">>), StrVal(<<"M", "A", "X">>),
                       StrVal(<<"2", "H">>), IntVal(1)}
           starts == {NoneVal, StrVal(<<"2", "0", "2", "4", "-", "0", "1", "-", "1", "0">>),
                      datetime(2024, 1, 10, 0, TRUE), datetime(2024, 1, 10, 0, FALSE),
                      datetime(1969, 12, 31, 0, TRUE), IntVal(20240110)}
           ends == {NoneVal, StrVal(<<"n", "o", "w">>),
                    StrVal(<<"2", "0", "2", "4", "-", "0", "2", "-", "3", "0">>),
                    StrVal(<<"2", "0", "2", "4", "-", "2", "-", "1">>),
                    datetime(2024, 2, 1, 0, TRUE)}
           intervals == {<<"1", "D">>, <<"1", "W">>, <<"1", "m", "i", "n">>, <<"1", "h">>, <<"2", "D">>}
           flags == {BoolVal(TRUE), BoolVal(FALSE), IntVal(1)}
           usual == [share |-> plain, period |-> StrVal(<<"1", "M">>), start_date |-> NoneVal,
                     end_date |-> NoneVal, interval |-> <<"1", "D">>, adjusted |-> BoolVal(TRUE),
                     format |-> "json", now |-> datetime(2024, 6, 15, 0, TRUE), utcoffset |-> 0]
       IN  \/ /\ history_call \in
                    {[usual EXCEPT !.share = sh, !.period = p, !.start_date = sd, !.end_date = ed,
                                   !.now = n, !.utcoffset = off] :
                        sh \in shares, p \in periods, sd \in starts, ed \in ends, n \in clocks,
                        off \in {0, 7200}}
              /\ history_api \in {r \in answers : r.status_code = 200 /\ r.json # Unset}
           \/ /\ history_call \in
                    {[usual EXCEPT !.interval = i, !.adjusted = adj, !.format = f] :
                        i \in intervals, adj \in flags, f \in {"json", "dataframe", "csv"}}
              /\ history_api \in answers

NextHistory == RequestHistory \/ ReceiveHistory

SpecHistory == InitHistory /\ [][NextHistory]_vars

----------------------------------------------------------------------------
(* Properties of get_history *)

\* get_history is past its checks; it was given a Share, a dictionary key as
\* interval and a bool as adjusted, so nothing but the range can stop it
Resolved ==
    /\ history_pc \in {"requested", "returned", "raised"}
    /\ history_call.share.t = "Share"
    /\ history_call.adjusted.t = "bool"
    /\ \E i \in 1..Len(HISTORY_INTERVALS) : HISTORY_INTERVALS[i].key = history_call.interval

\* the period argument names a period of the enumeration, in any case
NamedPeriod ==
    /\ history_call.period.t = "str"
    /\ \E i \in 1..Len(HISTORY_PERIODS) : HISTORY_PERIODS[i].key = upper(history_call.period.s)

BothDates == Truthy(history_call.start_date) /\ Truthy(history_call.end_date)

\* the request that went out asks for the range start .. end
Asked(start, end) ==
    /\ Len(history_requests) = 1
    /\ history_requests[1].from = timestamp(start, history_call.utcoffset)
    /\ history_requests[1].to = timestamp(end, history_call.utcoffset)

\* C14: when a named period and explicit start and end dates are both
\* given, the request asks for the range of the period, the one the same
\* call gets without the dates.
C14_PeriodWins ==
    (Resolved /\ NamedPeriod /\ BothDates) =>
        LET alone == resolve_range([history_call EXCEPT !.start_date = NoneVal,
                                                        !.end_date = NoneVal])
        IN  /\ history_pc # "raised" \/ history_requests # <<>>
            /\ start_date = alone.start /\ end_date = alone.end
            /\ Asked(alone.start, alone.end)

\* a bound the caller may give: nothing, or a datetime in UTC from 1970 on
\* ("now" for the end)
UsableBound(v) ==
    \/ v = NoneVal
    \/ v.t = "datetime" /\ v.aware /\ v.y >= 1970

\* C15: without a period a missing start is 1970-01-01 and a missing end is
\* now: the call is not rejected, a call with neither bound asks for what
\* period MAX asks for and a call with one bound still issues its request.
C15_MissingBoundsDefaulted ==
    (/\ Resolved /\ history_call.period = NoneVal
     /\ UsableBound(history_call.start_date) /\ UsableBound(history_call.end_date)) =>
        LET start == IF history_call.start_date = NoneVal THEN MIN_START_DATE
                     ELSE history_call.start_date
            end == IF history_call.end_date = NoneVal THEN history_call.now
                   ELSE history_call.end_date
        IN  /\ history_requests # <<>>
            /\ start_date = start /\ end_date = end
            /\ Asked(start, end)

\* C16: a named period is resolved against now: YTD starts on January 1 of
\* now's year, MAX starts on 1970-01-01 whatever the share, any other period
\* starts at now minus its delta; the end is now; a token outside the
\* enumeration is refused before any request.
C16_PeriodResolution ==
    (Resolved /\ history_call.period.t = "str" /\ ~BothDates) =>
        LET now == history_call.now
            period == upper(history_call.period.s)
            delta == HISTORY_PERIODS[CHOOSE i \in 1..Len(HISTORY_PERIODS) :
                                        HISTORY_PERIODS[i].key = period].delta
        IN  IF NamedPeriod
            THEN /\ history_requests # <<>>
                 /\ end_date = now
                 /\ Asked(start_date, now)
                 /\ CASE period = <<"Y", "T", "D">> ->
                            start_date.y = now.y /\ start_date.m = 1 /\ start_date.d = 1
                      [] period = <<"M", "A", "X">> ->
                            timestamp(start_date, history_call.utcoffset) = 0
                      [] OTHER ->
                            start_date = minus_delta(now, delta)
            ELSE history_pc = "raised" /\ history_requests = <<>>

\* the endpoint answered 200 with a JSON body and the caller asked for JSON
Answered ==
    /\ history_pc \in {"returned", "raised"}
    /\ history_requests # <<>>
    /\ history_api.status_code = 200 /\ history_api.json # Unset
    /\ history_call.format = "json"

\* C17: status "ok" passes the series through; status "no_data" returns the
\* empty series (six empty arrays, status "ok") with one warning and no
\* exception; any other status raises an error that carries the response.
C17_StatusMapping ==
    Answered =>
        CASE history_api.json.s = "ok" ->
                history_outcome = [type |-> "returned", value |-> history_api.json]
          [] history_api.json.s = "no_data" ->
                /\ history_outcome = [type |-> "returned",
                                      value |-> [s |-> "ok", t |-> <<>>, o |-> <<>>, h |-> <<>>,
                                                 l |-> <<>>, c |-> <<>>, v |-> <<>>]]
                /\ Len(warned) = 1
          [] OTHER ->
                /\ history_pc = "raised"
                /\ "response" \in DOMAIN history_outcome
                /\ history_outcome.response = history_api.json

\* the intervals of the documentation, spelled as the documentation spells them
DocumentedIntervals ==
    {<<"1", "m", "i", "n">>, <<"5", "m", "i", "n">>, <<"1", "5", "m", "i", "n">>,
     <<"3", "0", "m", "i", "n">>, <<"1", "h">>, <<"1", "D">>, <<"1", "W">>, <<"1", "M">>}

\* the call got as far as the interval: a Share, a range that resolved and a
\* bool for adjusted
ReachedInterval ==
    /\ history_pc # "start"
    /\ history_call.share.t = "Share"
    /\ history_call.adjusted.t = "bool"
    /\ resolve_range(history_call).exc = NoExc

\* C24: a documented interval, in the spelling of the documentation, passes
\* the interval check and the request goes out with the dt and p of its
\* _HISTORY_INTERVALS entry; any other interval raises ValueError and no
\* request goes out.
C24_DocumentedIntervals ==
    ReachedInterval =>
        IF history_call.interval \in DocumentedIntervals
        THEN /\ Len(history_requests) = 1
             /\ \E i \in 1..Len(HISTORY_INTERVALS) :
                    /\ HISTORY_INTERVALS[i].key = upper(history_call.interval)
                    /\ history_requests[1].dt = HISTORY_INTERVALS[i].dt
                    /\ history_requests[1].p = HISTORY_INTERVALS[i].p
        ELSE (\A i \in 1..Len(HISTORY_INTERVALS) :
                    HISTORY_INTERVALS[i].key # upper(history_call.interval)) =>
                /\ history_pc = "raised" /\ history_outcome.type = "ValueError"
                /\ history_requests = <<>>

----------------------------------------------------------------------------
(* The instrument detail page: post_response_instrument_details_form and    *)
(* get_share_info                                                           *)

possible_buttons == {
    <<"O", "V", "E", "R", "V", "I", "E", "W">>,
    <<"T", "R", "A", "D", "I", "N", "G">>,
    <<"C", "H", "A", "R", "T", "S">>,
    <<"N", "E", "W", "S">>,
    <<"F", "I", "N", "A", "N", "C", "I", "A", "L", "S">>,
    <<"I", "S", "S", "U", "E", "R", " ", "P", "R", "O", "F", "I", "L", "E">> }

\* soup.find('form') or soup.find('form', id=form_id) on a page, a sequence
\* of forms: the form, or None
find_form(page, form_id) ==
    LET fits(i) == form_id = NoneVal \/ page[i].id = form_id
    IN  IF \E i \in 1..Len(page) : fits(i)
        THEN page[CHOOSE i \in 1..Len(page) : fits(i) /\ \A j \in 1..(i - 1) : ~fits(j)]
        ELSE NoneVal

\* lines 119-137 had the loop not insisted on the name of the button
post_data_of_unnamed(form, button) ==
    LET inputs == form.inputs
        hidden == {i \in 1..Len(inputs) :
                      /\ inputs[i].type = "hidden"
                      /\ Truthy(inputs[i].name)
                      /\ Len(inputs[i].name.s) >= 2
                      /\ inputs[i].name.s[1] = "_" /\ inputs[i].name.s[2] = "_"}
        flags == {<<"ctl00$body$ctl02$NewsBySymbolControl$chOutVolatility">>,
                  <<"ctl00$body$ctl02$NewsBySymbolControl$chOutInsiders">>}
        stops(i) == /\ inputs[i].type = "submit"
                    /\ (inputs[i].value = NoneVal \/ upper(inputs[i].value.s) = button)
        found == \E i \in 1..Len(inputs) : stops(i)
        btn == inputs[CHOOSE i \in 1..Len(inputs) : stops(i) /\ \A j \in 1..(i - 1) : ~stops(j)]
        pressed == found /\ btn.name # NoneVal
        fields == [k \in flags \cup {inputs[i].name.s : i \in hidden} |->
                      IF \E i \in hidden : inputs[i].name.s = k
                      THEN inputs[CHOOSE i \in hidden : /\ inputs[i].name.s = k
                                                        /\ \A j \in hidden : inputs[j].name.s = k => j <= i].value
                      ELSE StrVal(<<"o", "n">>)]
    IN  IF found /\ btn.value = NoneVal
        THEN [exc |-> [type |-> "AttributeError", message |-> "'NoneType' object has no attribute 'upper'"],
              data |-> fields]
        ELSE [exc |-> NoExc,
              data |-> IF ~pressed THEN fields
                       ELSE [k \in DOMAIN fields \cup {<<"ctl00$MasterScriptManager">>, btn.name.s} |->
                                IF k = btn.name.s THEN btn.value
                                ELSE IF k = <<"ctl00$MasterScriptManager">>
                                THEN StrVal(<<"ctl00$body$updIfttc|">> \o btn.name.s)
                                ELSE fields[k]]]

\* lines 119-137: the payload of the POST as [exc, data]; data maps the name
\* of a field to its value
post_data_of(form, button) ==
    LET inputs == form.inputs
        hidden == {i \in 1..Len(inputs) :
                      /\ inputs[i].type = "hidden"
                      /\ Truthy(inputs[i].name)
                      /\ Len(inputs[i].name.s) >= 2
                      /\ inputs[i].name.s[1] = "_" /\ inputs[i].name.s[2] = "_"}
        flags == {<<"ctl00$body$ctl02$NewsBySymbolControl$chOutVolatility">>,
                  <<"ctl00$body$ctl02$NewsBySymbolControl$chOutInsiders">>}
        stops(i) == /\ inputs[i].type = "submit"
                    /\ (inputs[i].value = NoneVal \/ upper(inputs[i].value.s) = button)
        found == \E i \in 1..Len(inputs) : stops(i)
        btn == inputs[CHOOSE i \in 1..Len(inputs) : stops(i) /\ \A j \in 1..(i - 1) : ~stops(j)]
        fields == [k \in flags \cup {inputs[i].name.s : i \in hidden} |->
                      IF \E i \in hidden : inputs[i].name.s = k
                      THEN inputs[CHOOSE i \in hidden : /\ inputs[i].name.s = k
                                                        /\ \A j \in hidden : inputs[j].name.s = k => j <= i].value
                      ELSE StrVal(<<"o", "n">>)]
    IN  IF ~found THEN [exc |-> NoExc, data |-> fields]
        ELSE IF btn.value = NoneVal
        THEN [exc |-> [type |-> "AttributeError", message |-> "'NoneType' object has no attribute 'upper'"],
              data |-> fields]
        ELSE IF btn.name = NoneVal
        THEN [exc |-> [type |-> "ValueError", message |-> "The target button does not have name property"],
              data |-> fields]
        ELSE [exc |-> NoExc,
              data |-> [k \in DOMAIN fields \cup {<<"ctl00$MasterScriptManager">>, btn.name.s} |->
                           IF k = btn.name.s THEN btn.value
                           ELSE IF k = <<"ctl00$MasterScriptManager">>
                           THEN StrVal(<<"ctl00$body$updIfttc|">> \o btn.name.s)
                           ELSE fields[k]]]

\* utils.post_request, given the response of the server: as get_url_response
post_request(response) ==
    IF response.status_code # 200 /\ response.text = <<>>
    THEN [type |-> "ValueError", message |-> "Response is not valid."]
    ELSE NoExc

\* scraper_service.py lines 887-940: the issuer profile read from the HTML of
\* the tab, as [exc, info]; info maps a field name to its value.  The HTML is
\* its profile table (rows of cells), its description spans and its
\* shareholder table (rows of texts, the header row first), each a list or
\* None when absent.
company_info_of(html) ==
    LET needed == << [label |-> <<"Cod Registrul Comertului">>, key |-> "commerce_registry_code"],
                     [label |-> <<"Adresa">>, key |-> "address"],
                     [label |-> <<"Website">>, key |-> "website"],
                     [label |-> <<"E-mail">>, key |-> "email"],
                     [label |-> <<"Domeniu de activitate">>, key |-> "activity_field"] >>
        rows == html.profile.l
        wanted(i) == \E n \in 1..Len(needed) : needed[n].label = rows[i][1].text
        key_of(i) == needed[CHOOSE n \in 1..Len(needed) : needed[n].label = rows[i][1].text].key
        fails(i) == \/ Len(rows[i]) # 2
                    \/ rows[i][1].text = <<"Website">> /\ rows[i][2].href = NoneVal
        first == CHOOSE i \in 1..Len(rows) : fails(i) /\ \A j \in 1..(i - 1) : ~fails(j)
        kept == {i \in 1..Len(rows) : wanted(i)}
        last(k) == CHOOSE i \in kept : key_of(i) = k /\ \A j \in kept : key_of(j) = k => j <= i
        value(i) == IF rows[i][1].text = <<"Website">> THEN rows[i][2].href
                    ELSE StrVal(strip(remove(rows[i][2].text, CRLF)))
        RECURSIVE concat(_)
        concat(spans) == IF spans = <<>> THEN <<>> ELSE Head(spans) \o concat(Tail(spans))
        table == html.shareholders.l
        body == SubSeq(table, 2, Len(table) - 1)              \* trs[1:-1]
        short == \E r \in 1..Len(body) : Len(body[r]) < Len(table[1])
        holders == [r \in 1..Len(body) |->
                       [h \in Range(table[1]) |->
                           body[r][CHOOSE c \in 1..Len(table[1]) :
                                      table[1][c] = h /\ \A e \in 1..Len(table[1]) : table[1][e] = h => e <= c]]]
        keys == {key_of(i) : i \in kept}
                    \cup (IF html.description # NoneVal THEN {"description"} ELSE {})
                    \cup (IF html.shareholders # NoneVal THEN {"shareholders"} ELSE {})
        failed(type, message) == [exc |-> [type |-> type, message |-> message], info |-> <<>>]
    IN  IF html.profile = NoneVal
        THEN failed("AttributeError", "'NoneType' object has no attribute 'find_all'")
        ELSE IF \E i \in 1..Len(rows) : fails(i)
        THEN (IF Len(rows[first]) # 2
              THEN failed("ValueError", "A tr element does not have exactly two td elements in company profile")
              ELSE failed("TypeError", "'NoneType' object is not subscriptable"))
        ELSE IF html.shareholders # NoneVal /\ (table = <<>> \/ short)
        THEN failed("IndexError", "list index out of range")
        ELSE [exc |-> NoExc,
              info |-> [k \in keys |->
                           IF k = "description" THEN StrVal(concat(html.description.l))
                           ELSE IF k = "shareholders" THEN ListVal(holders)
                           ELSE value(last(k))]]

\* the arguments post_response_instrument_details_form is called with:
\* __get_company_info passes its own button and form id (lines 877-884)
form_args ==
    IF form_call.entry = "get_share_info"
    THEN [symbol |-> form_call.symbol,
          button |-> StrVal(<<"E", "m", "i", "t", "e", "n", "t">>),
          form_id |-> StrVal(<<"aspnetForm">>)]
    ELSE [symbol |-> form_call.symbol, button |-> form_call.button, form_id |-> form_call.form_id]

\* share_utils.py lines 73-99: the URL, the two validations and the GET
LoadPage ==
    /\ form_pc = "start"
    /\ LET a == form_args
           exc == IF a.symbol.t # "str"        \* _BASE_URL + symbol, then the type test
                  THEN [type |-> "TypeError", message |-> "can only concatenate str"]
                  ELSE IF ~(\E x \in up_to_dollar(upper(a.symbol.s)) :
                                Len(x) > 0 /\ all_in(x, Upper \cup Digits))
                  THEN [type |-> "ValueError", message |-> "Invalid symbol format"]
                  ELSE IF a.button.t # "str"
                  THEN [type |-> "TypeError", message |-> "The button must be of type str."]
                  ELSE IF upper(a.button.s) \notin possible_buttons
                  THEN [type |-> "ValueError", message |-> "Invalid button."]
                  ELSE NoExc
           invalid == get_url_response(site.get)
       IN  IF exc # NoExc
           THEN /\ form_pc' = "raised"
                /\ form_outcome' = exc
                /\ UNCHANGED form_requests
           ELSE /\ form_requests' = Append(form_requests,
                        [method |-> "GET", url |-> a.symbol.s, headers |-> NoneVal])
                /\ IF invalid # NoExc
                   THEN form_pc' = "raised" /\ form_outcome' = invalid
                   ELSE form_pc' = "loaded" /\ UNCHANGED form_outcome
    /\ UNCHANGED <<form_call, site, listing_vars, entity_vars, history_vars, shares_vars>>

\* share_utils.py lines 101-141: the form, the payload and the POST ('OVERVIEW'
\* == 'Overview' at line 101 is false for every call); for get_share_info
\* also scraper_service.py lines 887-946
SubmitForm ==
    /\ form_pc = "loaded"
    /\ LET a == form_args
           form == find_form(site.get.page, a.form_id)
           payload == post_data_of(form, upper(a.button.s))
           invalid == post_request(site.post)
           read == company_info_of(site.post.html)
           raise(exc) == form_pc' = "raised" /\ form_outcome' = exc
       IN  IF form = NoneVal
           THEN /\ raise([type |-> "ValueError", message |-> "There is no form element in the given HTML."])
                /\ UNCHANGED form_requests
           ELSE IF payload.exc # NoExc
           THEN raise(payload.exc) /\ UNCHANGED form_requests
           ELSE /\ form_requests' = Append(form_requests,
                        [method |-> "POST", url |-> a.symbol.s, data |-> payload.data,
                         headers |-> [Referer |-> a.symbol.s]])
                /\ IF invalid # NoExc THEN raise(invalid)
                   ELSE IF form_call.entry # "get_share_info"
                   THEN /\ form_pc' = "returned"
                        /\ form_outcome' = [type |-> "returned", value |-> StrVal(site.post.text)]
                   ELSE IF read.exc # NoExc THEN raise(read.exc)
                   ELSE /\ form_pc' = "returned"
                        /\ form_outcome' = [type |-> "returned", value |-> read.info]
    /\ UNCHANGED <<form_call, site, listing_vars, entity_vars, history_vars, shares_vars>>

\* a call, and what the site answers to its GET and to its POST
InitForm ==
    /\ ListingIdle
    /\ EntityIdle
    /\ HistoryIdle
    /\ SharesIdle
    /\ form_pc = "start"
    /\ form_requests = <<>>
    /\ form_outcome = Unset
    /\ LET input(type, name, value) == [type |-> type, name |-> name, value |-> value]
           profile_label == StrVal(<<"I", "s", "s", "u", "e", "r", " ", "p", "r", "o", "f", "i", "l", "e">>)
           overview_label == StrVal(<<"O", "v", "e", "r", "v", "i", "e", "w">>)
           issuer_label == StrVal(<<"E", "m", "i", "t", "e", "n", "t">>)
           state == << input("hidden", StrVal(<<"_", "_", "VIEWSTATE">>), StrVal(<<"dDwt">>)),
                       input("hidden", StrVal(<<"_", "_", "EVENTVALIDATION">>), StrVal(<<"wEWA">>)),
                       input("hidden", StrVal(<<"_", "scroll">>), StrVal(<<"0">>)),
                       input("hidden", NoneVal, StrVal(<<"x">>)),
                       input("text", StrVal(<<"_", "_", "search">>), StrVal(<<>>)),
                       input("submit", StrVal(<<"ctl00$body$IFTC$btnOverview">>), overview_label) >>
           aspnet(buttons) == [id |-> StrVal(<<"aspnetForm">>), inputs |-> state \o buttons]
           search == [id |-> StrVal(<<"search">>),
                      inputs |-> << input("hidden", StrVal(<<"_", "_", "q">>), StrVal(<<"q">>)) >>]
           named == input("submit", StrVal(<<"ctl00$body$IFTC$btnIssuer">>), profile_label)
           pages == { << aspnet(<<named>>) >>,
                      << aspnet(<<input("submit", StrVal(<<"ctl00$body$IFTC$btnIssuer">>), issuer_label)>>) >>,
                      << search, aspnet(<<named>>) >>,
                      << aspnet(<<input("submit", NoneVal, profile_label)>>) >>,
                      << aspnet(<<input("submit", StrVal(<<"go">>), NoneVal), named>>) >>,
                      <<>> }
           gets == {[status_code |-> 200, text |-> <<"<html>">>, page |-> pg] : pg \in pages}
                       \cup {[status_code |-> 404, text |-> <<"<html>">>, page |-> <<>>],
                             [status_code |-> 500, text |-> <<>>, page |-> <<>>],
                             [status_code |-> 200, text |-> <<>>, page |-> <<>>]}
           cell(text) == [text |-> text, href |-> NoneVal]
           tab == [profile |-> ListVal(<< <<cell(<<"Cod Registrul Comertului">>), cell(<<" ", "J12/4155/1993", CRLF>>)>>,
                                  <<cell(<<"Adresa">>), cell(<<"Str.", " ", "Baritiu", " ", "8">>)>>,
                                  <<cell(<<"Website">>), [text |-> <<"www.bt.ro">>, href |-> StrVal(<<"http://www.bt.ro">>)]>>,
                                  <<cell(<<"E-mail">>), cell(<<"office@bt.ro">>)>>,
                                  <<cell(<<"Domeniu de activitate">>), cell(<<"Banci">>)>>,
                                  <<cell(<<"Cod CAEN">>), cell(<<"6419">>)>> >>),
                   description |-> ListVal(<< <<"A", " ">>, <<"bank">> >>),
                   shareholders |-> ListVal(<< <<"Actionar", "Procent">>, <<"NN", "10">>, <<"altii", "90">>,
                                       <<"Total", "100">> >>)]
           missing == [profile |-> NoneVal, description |-> NoneVal, shareholders |-> NoneVal]
           posts == {[status_code |-> 200, text |-> <<"<html>", "profile">>, html |-> tab],
                     [status_code |-> 200, text |-> <<"<html>", "profile">>,
                      html |-> [tab EXCEPT !.description = NoneVal, !.shareholders = NoneVal]],
                     [status_code |-> 200, text |-> <<>>, html |-> missing],
                     [status_code |-> 404, text |-> <<"<html>">>, html |-> missing],
                     [status_code |-> 500, text |-> <<>>, html |-> missing]}
           symbols == {S_TLV, StrVal(<<"t", "l", "v">>), StrVal(<<"T", " ", "L", "V">>),
                       StrVal(<<"E", "L", "\n">>), StrVal(<<>>), IntVal(7)}
           buttons == {profile_label, overview_label, issuer_label,
                       StrVal(<<"D", "i", "v", "i", "d", "e", "n", "d", "s">>), NoneVal}
           form_ids == {NoneVal, StrVal(<<"aspnetForm">>), StrVal(<<"missing">>)}
       IN  /\ site \in [get : gets, post : posts]
           /\ form_call \in
                {[entry |-> "get_share_info", symbol |-> sy, button |-> Unset, form_id |-> Unset] :
                    sy \in symbols}
                \cup {[entry |-> "post_response_instrument_details_form", symbol |-> sy,
                       button |-> b, form_id |-> f] :
                        sy \in symbols, b \in buttons, f \in form_ids}

NextForm == LoadPage \/ SubmitForm

SpecForm == InitForm /\ [][NextForm]_vars

----------------------------------------------------------------------------
(* Properties of the detail page calls *)

FormCalled == form_pc \in {"loaded", "returned", "raised"}
FormDone == form_pc \in {"returned", "raised"}

\* the number of requests of a method the call has issued
Issued(method) == Cardinality({i \in 1..Len(form_requests) : form_requests[i].method = method})

\* letters and digits only, and at least one
WellFormedSymbol(v) == v.t = "str" /\ v.s # <<>> /\ all_in(v.s, Lower \cup Upper \cup Digits)

\* the site answers both requests with 200 and serves the form with a named
\* issuer profile button and the profile table
Cooperative ==
    /\ site.get.status_code = 200 /\ site.post.status_code = 200
    /\ site.post.html.profile # NoneVal
    /\ LET form == find_form(site.get.page, StrVal(<<"aspnetForm">>))
       IN  /\ form # NoneVal
           /\ \E i \in 1..Len(form.inputs) :
                 /\ form.inputs[i].type = "submit" /\ form.inputs[i].name # NoneVal
                 /\ form.inputs[i].value \in
                        {StrVal(<<"I", "s", "s", "u", "e", "r", " ", "p", "r", "o", "f", "i", "l", "e">>),
                         StrVal(<<"E", "m", "i", "t", "e", "n", "t">>)}
           /\ \A i \in 1..Len(form.inputs) : form.inputs[i].value # NoneVal

\* C18: get_share_info with a well-formed symbol passes the button validation
\* of post_response_instrument_details_form: it reaches the GET, and on a
\* site that serves the issuer profile it issues the POST and returns the
\* mapping of the profile fields.
C18_ShareInfoReachesProfile ==
    (FormCalled /\ form_call.entry = "get_share_info" /\ WellFormedSymbol(form_call.symbol)) =>
        /\ Issued("GET") = 1
        /\ (FormDone /\ Cooperative) =>
                /\ Issued("POST") = 1
                /\ form_pc = "returned"
                /\ {"commerce_registry_code", "address", "website", "email", "activity_field"}
                        \subseteq DOMAIN form_outcome.value

\* the button is no known tab name
UnknownButton ==
    form_args.button.t # "str" \/ upper(form_args.button.s) \notin possible_buttons

\* the page has no form, or none with the given id
NoForm == find_form(site.get.page, form_args.form_id) = NoneVal

\* the first submit control of the form whose label is the requested tab has
\* no name attribute
NamelessButton ==
    /\ ~UnknownButton /\ ~NoForm
    /\ LET inputs == find_form(site.get.page, form_args.form_id).inputs
           labelled(i) == /\ inputs[i].type = "submit" /\ inputs[i].value # NoneVal
                          /\ upper(inputs[i].value.s) = upper(form_args.button.s)
       IN  \E i \in 1..Len(inputs) :
               labelled(i) /\ inputs[i].name = NoneVal /\ \A j \in 1..(i - 1) : ~labelled(j)

\* C19: post_response_instrument_details_form ends with an error and issues
\* no POST when the button is no known tab name, when the fetched page has
\* no form (with the given id), and when the submit control of the requested
\* tab has no name attribute.
C19_FormFailures ==
    (FormCalled /\ (UnknownButton \/ NoForm \/ NamelessButton)) =>
        /\ Issued("POST") = 0
        /\ form_pc # "returned"
        /\ UnknownButton => form_pc = "raised" /\ Issued("GET") = 0
        /\ form_pc = "raised" => form_outcome.type \in {"ValueError", "TypeError", "AttributeError"}

\* C19 witness: the page was fetched, the button of the tab has no name, and
\* the call raised without a POST
C19_Witness ==
    /\ form_pc = "raised" /\ NamelessButton
    /\ Issued("GET") = 1 /\ Issued("POST") = 0
    /\ form_outcome.message = "The target button does not have name property"

\* the response is no success: its status is not 200 or it has no text
Unsuccessful(response) == response.status_code # 200 \/ response.text = <<>>

\* C20: get_url_response and post_request return the Response only for a
\* successful request: whenever the status code is not 200 or the response
\* has no text they raise ValueError.
C20_OnlySuccessfulResponses ==
    /\ (Issued("GET") = 1 /\ Unsuccessful(site.get)) =>
            /\ form_pc = "raised"
            /\ form_outcome = [type |-> "ValueError", message |-> "Response is not valid."]
    /\ (Issued("POST") = 1 /\ Unsuccessful(site.post)) =>
            /\ form_pc = "raised"
            /\ form_outcome = [type |-> "ValueError", message |-> "Response is not valid."]

\* the call is one of post_response_instrument_details_form itself, and it
\* passed the validation of its arguments
DirectCall ==
    /\ FormCalled /\ form_call.entry = "post_response_instrument_details_form"
    /\ form_requests # <<>>

\* the requested tab is the one the page lands on
DefaultTab == upper(form_args.button.s) = <<"O", "V", "E", "R", "V", "I", "E", "W">>

\* the methods of the requests issued, in their order
methods == [i \in 1..Len(form_requests) |-> form_requests[i].method]

\* C26: post_response_instrument_details_form issues the GET of the detail
\* page once; for the Overview tab it returns what the GET brought and
\* issues no POST; for any other tab a call that returns has issued one POST
\* after the GET and returns the text of the POST.
C26_GetThenPost ==
    DirectCall =>
        /\ Issued("GET") = 1 /\ methods[1] = "GET"
        /\ IF DefaultTab
           THEN /\ Issued("POST") = 0
                /\ get_url_response(site.get) = NoExc =>
                        /\ form_pc = "returned"
                        /\ form_outcome.value = StrVal(site.get.text)
           ELSE form_pc = "returned" =>
                    /\ methods = <<"GET", "POST">>
                    /\ form_outcome.value = StrVal(site.post.text)

\* the name starts with two underscores
dunder(name) == Truthy(name) /\ Len(name.s) >= 2 /\ name.s[1] = "_" /\ name.s[2] = "_"

\* C27: the payload of a POST that is issued holds the two checkbox flags,
\* every hidden input of the form whose name starts with "__" with its value
\* and no other hidden input, and the name and value of the submit control
\* labelled with the requested tab; the POST goes to the URL of the GET with
\* that URL as Referer.  No POST goes out without the field of the submit
\* control.
C27_PostPayload ==
    \A r \in 1..Len(form_requests) : form_requests[r].method = "POST" =>
        LET data == form_requests[r].data
            inputs == find_form(site.get.page, form_args.form_id).inputs
            hidden == {i \in 1..Len(inputs) : inputs[i].type = "hidden"}
            on == StrVal(<<"o", "n">>)
        IN  /\ form_requests[r].url = form_requests[1].url
            /\ form_requests[1].method = "GET"
            /\ form_requests[r].headers = [Referer |-> form_requests[r].url]
            /\ <<"ctl00$body$ctl02$NewsBySymbolControl$chOutVolatility">> \in DOMAIN data
            /\ data[<<"ctl00$body$ctl02$NewsBySymbolControl$chOutVolatility">>] = on
            /\ <<"ctl00$body$ctl02$NewsBySymbolControl$chOutInsiders">> \in DOMAIN data
            /\ data[<<"ctl00$body$ctl02$NewsBySymbolControl$chOutInsiders">>] = on
            /\ \A i \in hidden :
                IF dunder(inputs[i].name)
                THEN inputs[i].name.s \in DOMAIN data /\ data[inputs[i].name.s] = inputs[i].value
                ELSE inputs[i].name = NoneVal \/ inputs[i].name.s \notin DOMAIN data
            /\ \E i \in 1..Len(inputs) :
                /\ inputs[i].type = "submit" /\ inputs[i].value # NoneVal
                /\ upper(inputs[i].value.s) = upper(form_args.button.s)
                /\ inputs[i].name # NoneVal
                /\ inputs[i].name.s \in DOMAIN data
                /\ data[inputs[i].name.s] = inputs[i].value

\* C30: the arguments are validated before any request: a call whose symbol
\* is not a string of letters and digits, or whose button is no known tab
\* name, raises, and neither the GET nor the POST is issued.
C30_ValidationBeforeRequests ==
    (FormCalled /\ (~WellFormedSymbol(form_args.symbol) \/ UnknownButton)) =>
        /\ form_pc = "raised"
        /\ form_outcome.type \in {"TypeError", "ValueError"}
        /\ form_requests = <<>>

----------------------------------------------------------------------------
(* The filtered listing: _standardize_list_parameter, get_shares and        *)
(* get_share_info of src/bvb/scraper_service.py, with the Share and the     *)
(* Company of src/bvb                                                       *)

ALL_VALUES == << <<>>, <<"A", "L", "L">> >>

\* the list, had it been returned as the caller gave it
standardize_list_parameter_as_given(possible_values, value) ==
    LET failed(type, message) == [exc |-> [type |-> type, message |-> message], list |-> <<>>]
        member(s) == \E i \in 1..Len(possible_values.l) : possible_values.l[i] = StrVal(s)
    IN  IF possible_values.t # "list"
        THEN failed("TypeError", "possible_values parameter should be of type list.")
        ELSE IF value.t = "str"
        THEN LET up == upper(value.s)
             IN  IF \E i \in 1..Len(ALL_VALUES) : ALL_VALUES[i] = up
                 THEN [exc |-> NoExc, list |-> possible_values.l]
                 ELSE IF member(up) THEN [exc |-> NoExc, list |-> <<StrVal(up)>>]
                 ELSE failed("ValueError", "abbreviation is not valid.")
        ELSE IF value.t = "list"
        THEN LET bad(i) == value.l[i].t # "str" \/ ~member(upper(value.l[i].s))
             IN  IF \E i \in 1..Len(value.l) : bad(i)
                 THEN LET k == CHOOSE i \in 1..Len(value.l) : bad(i) /\ \A j \in 1..(i - 1) : ~bad(j)
                      IN  IF value.l[k].t # "str"
                          THEN failed("AttributeError", "object has no attribute 'upper'")
                          ELSE failed("ValueError", "abbreviation is not valid.")
                 ELSE [exc |-> NoExc, list |-> value.l]
        ELSE failed("TypeError", "Market parameter must be a str or list.")

\* lines 13-54: _standardize_list_parameter(possible_values, value) as
\* [exc, list]; list is the Python list returned
standardize_list_parameter(possible_values, value) ==
    LET failed(type, message) == [exc |-> [type |-> type, message |-> message], list |-> <<>>]
        member(s) == \E i \in 1..Len(possible_values.l) : possible_values.l[i] = StrVal(s)
    IN  IF possible_values.t # "list"
        THEN failed("TypeError", "possible_values parameter should be of type list.")
        ELSE IF value.t = "str"
        THEN LET up == upper(value.s)
             IN  IF \E i \in 1..Len(ALL_VALUES) : ALL_VALUES[i] = up
                 THEN [exc |-> NoExc, list |-> possible_values.l]
                 ELSE IF member(up) THEN [exc |-> NoExc, list |-> <<StrVal(up)>>]
                 ELSE failed("ValueError", "abbreviation is not valid.")
        ELSE IF value.t = "list"
        THEN LET bad(i) == value.l[i].t # "str" \/ ~member(upper(value.l[i].s))
             IN  IF \E i \in 1..Len(value.l) : bad(i)
                 THEN LET k == CHOOSE i \in 1..Len(value.l) : bad(i) /\ \A j \in 1..(i - 1) : ~bad(j)
                      IN  IF value.l[k].t # "str"            \* v.upper() of a non-str
                          THEN failed("AttributeError", "object has no attribute 'upper'")
                          ELSE failed("ValueError", "abbreviation is not valid.")
                 ELSE [exc |-> NoExc, list |-> [i \in 1..Len(value.l) |-> StrVal(upper(value.l[i].s))]]
        ELSE failed("TypeError", "Market parameter must be a str or list.")

\* header names of the columns __get_shares_from_share_list reads (lines 103-119)
NEEDED_COLUMNS ==
    [symbol |-> <<"S", "Y", "M", "B", "O", "L">>, isin |-> <<"I", "S", "I", "N">>,
     name |-> <<"S", "E", "C", "U", "R", "I", "T", "Y", " ", "N", "A", "M", "E">>,
     total_shares |-> <<"S", "H", "A", "R", "E", "S">>,
     face_value |-> <<"F", "A", "C", "E", " ", "V", "A", "L", "U", "E">>]
COMPANY_COLUMNS ==
    [name |-> <<"I", "S", "S", "U", "E", "R">>,
     fiscal_code |-> <<"F", "I", "S", "C", "A", "L", " ", "/", " ", "U", "N", "I", "Q", "U", "E", " ", "C", "O", "D", "E">>,
     nace_code |-> <<"C", "A", "E", "N", " ", "C", "O", "D", "E">>,
     district |-> <<"D", "I", "S", "T", "R", "I", "C", "T">>,
     country_iso2 |-> <<"C", "O", "U", "N", "T", "R", "Y">>]
FILTER_COLUMNS ==
    [symbol |-> <<"S", "Y", "M", "B", "O", "L">>, tier |-> <<"T", "I", "E", "R">>,
     market |-> <<"M", "A", "I", "N", " ", "M", "A", "R", "K", "E", "T">>]

\* {param_value: scraped_value}, in the order of the dict (lines 122-136)
MARKETS == << [key |-> <<"R", "E", "G", "S">>, value |-> <<"R", "E", "G", "S">>],
             [key |-> <<"A", "E", "R", "O">>, value |-> <<"X", "R", "S", "1">>],
             [key |-> <<"M", "T", "S">>, value |-> <<"X", "R", "S", "I">>] >>
TIERS == << [key |-> <<"I", "N", "T", "L">>, value |-> <<"I", "N", "T", "'", "L">>],
           [key |-> <<"P", "R", "E", "M", "I", "U", "M">>, value |-> <<"P", "R", "E", "M", "I", "U", "M">>],
           [key |-> <<"S", "T", "A", "N", "D", "A", "R", "D">>, value |-> <<"S", "T", "A", "N", "D", "A", "R", "D">>],
           [key |-> <<"A", "E", "R", "O", "_", "P", "R", "E", "M", "I", "U", "M">>,
            value |-> <<"A", "E", "R", "O", " ", "P", "R", "E", "M", "I", "U", "M">>],
           [key |-> <<"A", "E", "R", "O", "_", "S", "T", "A", "N", "D", "A", "R", "D">>,
            value |-> <<"A", "E", "R", "O", " ", "S", "T", "A", "N", "D", "A", "R", "D">>],
           [key |-> <<"A", "E", "R", "O", "_", "B", "A", "S", "E">>,
            value |-> <<"A", "E", "R", "O", " ", "B", "A", "S", "E">>],
           [key |-> <<"M", "T", "S", "_", "I", "N", "T", "L">>,
            value |-> <<"I", "N", "T", "L", "-", "M", "T", "S">>] >>

\* list(d) of such a dict
keys_of(d) == ListVal([i \in 1..Len(d) |-> StrVal(d[i].key)])

\* [d[k] for k in chosen]
values_for(d, chosen) ==
    [i \in 1..Len(chosen) |-> d[CHOOSE j \in 1..Len(d) : d[j].key = chosen[i].s].value]

\* lines 145-153: the symbols the rows are filtered by; empty when the
\* filter does not apply
symbol_filter(symbol) ==
    LET given == IF symbol.t = "str"
                 THEN (IF upper(symbol.s) # <<"A", "L", "L">> THEN <<symbol>> ELSE <<>>)
                 ELSE IF symbol.t = "list" THEN symbol.l
                 ELSE <<>>
        kept == SelectSeq(given, LAMBDA sy :
                    sy.t = "str" /\ \E x \in up_to_dollar(sy.s) : alnum_pattern(x))
    IN  [i \in 1..Len(kept) |-> upper(kept[i].s)]

\* lines 139-162: _FILTERS as [exc, filters]
filters_of(market, tier, symbol) ==
    LET symbols == symbol_filter(symbol)
        market_filter_values == standardize_list_parameter(keys_of(MARKETS), market)
        tier_filter_values == standardize_list_parameter(keys_of(TIERS), tier)
        columns == IF symbols = <<>> THEN {"market", "tier"} ELSE {"symbol", "market", "tier"}
    IN  IF market_filter_values.exc # NoExc THEN [exc |-> market_filter_values.exc, filters |-> <<>>]
        ELSE IF tier_filter_values.exc # NoExc THEN [exc |-> tier_filter_values.exc, filters |-> <<>>]
        ELSE [exc |-> NoExc,
              filters |-> [f \in columns |->
                              CASE f = "symbol" -> symbols
                                [] f = "market" -> values_for(MARKETS, market_filter_values.list)
                                [] f = "tier" -> values_for(TIERS, tier_filter_values.list)]]

\* line 167
headers_of(lines) ==
    LET columns == split(lines[1], ";")
    IN  [i \in 1..Len(columns) |-> upper(columns[i])]

\* lines 172-174: a column the header does not hold makes headers.index raise
columns_found(headers) ==
    /\ \A n \in DOMAIN NEEDED_COLUMNS : index(headers, NEEDED_COLUMNS[n]) >= 0
    /\ \A c \in DOMAIN COMPANY_COLUMNS : index(headers, COMPANY_COLUMNS[c]) >= 0
    /\ \A f \in DOMAIN FILTER_COLUMNS : index(headers, FILTER_COLUMNS[f]) >= 0

\* data_row[i], None on IndexError (lines 202-219)
cell_of(data_row, i) == IF InRange(data_row, i) THEN StrVal(item(data_row, i)) ELSE NoneVal

\* the row, had one matching filter column been enough
valid_row_any(data_row, filters, headers) ==
    \E filter_column \in DOMAIN filters :
        LET filter_index == index(headers, FILTER_COLUMNS[filter_column])
        IN  /\ filter_index < Len(data_row)
            /\ \E i \in 1..Len(filters[filter_column]) :
                    filters[filter_column][i] = upper(item(data_row, filter_index))

\* lines 184-198: the row meets every filter
valid_row(data_row, filters, headers) ==
    \A filter_column \in DOMAIN filters :
        LET filter_index == index(headers, FILTER_COLUMNS[filter_column])
        IN  /\ filter_index < Len(data_row)
            /\ \E i \in 1..Len(filters[filter_column]) :
                    filters[filter_column][i] = upper(item(data_row, filter_index))

\* src/bvb/company.py: the Company of src/bvb has seven fields; its name,
\* fiscal_code, nace_code, district and country_iso2 setters (lines 26-93) are
\* the ones of the packaged Company, sector and industry are plain assignments
BvbCompanyFields == {"name", "fiscal_code", "nace_code", "district", "country_iso2", "sector",
                     "industry"}

\* Company(name, fiscal_code, params) of src/bvb/company.py, lines 9-19
bvb_Company_init(name, fiscal_code, params) ==
    LET r1 == Company_name_setter([f \in BvbCompanyFields |-> Unset], name)
        r2 == IF r1.exc # NoExc THEN r1 ELSE Company_fiscal_code_setter(r1.self, fiscal_code)
        r3 == IF r2.exc # NoExc THEN r2
              ELSE Company_nace_code_setter(r2.self, kwargs_get(params, "nace_code"))
        r4 == IF r3.exc # NoExc THEN r3
              ELSE Company_district_setter(r3.self, kwargs_get(params, "district"))
        r5 == IF r4.exc # NoExc THEN r4
              ELSE Company_country_iso2_setter(r4.self, kwargs_get(params, "country_iso2"))
    IN  IF r5.exc # NoExc THEN r5
        ELSE Stored(Stored(r5.self, "sector", kwargs_get(params, "sector")).self,
                    "industry", kwargs_get(params, "industry"))

BvbShareFields == {"symbol", "isin", "market", "company", "tier"}

\* src/bvb/share.py lines 26-36: the symbol setter
bvb_Share_symbol_setter(self, v) ==
    IF v.t # "str" THEN Raised(self, "TypeError", "symbol", Unset)
    ELSE LET symbol == remove(v.s, " ")
         IN  IF \E x \in up_to_dollar(symbol) : alnum_pattern(x)
             THEN Stored(self, "symbol", StrVal(upper(symbol)))
             ELSE Raised(self, "ValueError", "symbol", Unset)

\* Share(symbol, params) of src/bvb/share.py, lines 10-20: the other fields
\* are assigned without their setters
bvb_Share_init(symbol, params) ==
    LET r == bvb_Share_symbol_setter([f \in BvbShareFields |-> NoneVal], symbol)
    IN  IF r.exc # NoExc THEN r
        ELSE [r EXCEPT !.self = [f \in BvbShareFields |->
                                    IF f = "symbol" THEN r.self.symbol ELSE kwargs_get(params, f)]]

\* lines 181-228: what one data row adds to return_values, as [exc, shares]
shares_of_row(row, filters, headers) ==
    LET data_row == split(row, ";")
        at(name) == cell_of(data_row, index(headers, name))
        company_dict == [c \in DOMAIN COMPANY_COLUMNS |-> at(COMPANY_COLUMNS[c])]
        built == bvb_Company_init(company_dict.name, company_dict.fiscal_code, company_dict)
        share_init_dict ==
            [k \in DOMAIN NEEDED_COLUMNS \cup DOMAIN FILTER_COLUMNS \cup {"company"} |->
                IF k = "company" THEN CompanyVal(built.self)
                ELSE IF k \in DOMAIN FILTER_COLUMNS THEN at(FILTER_COLUMNS[k])
                ELSE at(NEEDED_COLUMNS[k])]
        made == bvb_Share_init(share_init_dict.symbol, share_init_dict)
    IN  IF Len(data_row) <= 1 \/ ~valid_row(data_row, filters, headers)
        THEN [exc |-> NoExc, shares |-> <<>>]
        ELSE IF built.exc # NoExc THEN [exc |-> built.exc, shares |-> <<>>]
        ELSE IF made.exc # NoExc THEN [exc |-> made.exc, shares |-> <<>>]
        ELSE [exc |-> NoExc, shares |-> <<made.self>>]

\* the columns of the file served to the filtered listing, left to right
BvbHeader == <<
    <<"S", "y", "m", "b", "o", "l">>,
    <<"S", "e", "c", "u", "r", "i", "t", "y", " ", "n", "a", "m", "e">>,
    <<"I", "S", "I", "N">>,
    <<"I", "s", "s", "u", "e", "r">>,
    <<"F", "i", "s", "c", "a", "l", " ", "/", " ", "U", "n", "i", "q", "u", "e", " ", "C", "o", "d", "e">>,
    <<"S", "h", "a", "r", "e", "s">>,
    <<"F", "a", "c", "e", " ", "v", "a", "l", "u", "e">>,
    <<"C", "A", "E", "N", " ", "C", "o", "d", "e">>,
    <<"D", "i", "s", "t", "r", "i", "c", "t">>,
    <<"C", "o", "u", "n", "t", "r", "y">>,
    <<"M", "a", "i", "n", " ", "M", "a", "r", "k", "e", "t">>,
    <<"T", "i", "e", "r">> >>
TierColumn == Len(BvbHeader)

\* data rows by column
BvbRows == <<
    << <<"A", "A", "G">>, <<"AAGES">>, <<"ROAAGSACNOR3">>, <<"AAGES S.A.">>,
       <<"1", "2", "3", "4">>, <<"100">>, <<"1">>, <<"2", "7", "1", "1">>,
       <<"MURES">>, <<"R", "O">>,
       <<"R", "E", "G", "S">>, <<"S", "t", "a", "n", "d", "a", "r", "d">> >>,
    << <<"M", "A", "B", "E">>, <<"MABE">>, <<"ROMABEACNOR4">>, <<"MABE S.A.">>,
       <<"5", "6", "7", "8">>, <<"50">>, <<"2,5">>, <<"1", "0", "7", "1">>,
       <<"CLUJ">>, <<"R", "O">>,
       <<"X", "R", "S", "1">>, <<"A", "e", "R", "O", " ", "S", "t", "a", "n", "d", "a", "r", "d">> >>,
    << <<"A", "B", "C">>, <<"ABC DATA">>, <<"ROABCDACNOR5">>, <<"ABC S.A.">>,
       <<"9", "0", "1", "2">>, <<"70">>, <<"0,1">>, <<"6", "2", "0", "1">>,
       <<"IASI">>, <<"R", "O">>,
       <<"R", "E", "G", "S">>, <<"P", "r", "e", "m", "i", "u", "m">> >>,
    << <<"D", "L", "S">>, <<"DELISTED">>, <<"RODLSTACNOR6">>, <<"DLS S.A.">>,
       <<"3", "4", "5", "6">>, <<"10">>, <<"1">>, <<"4", "7", "1", "1">>,
       <<"ARAD">>, <<"R", "O">>,
       <<"-">>, <<"-">> >>,
    << <<"N", "I", "S">>, <<"NO ISSUER">>, <<"RONISSACNOR7">>, <<>>,
       <<"7", "8", "9", "0">>, <<"10">>, <<"1">>, <<"4", "7", "1", "1">>,
       <<"ARAD">>, <<"R", "O">>,
       <<"R", "E", "G", "S">>, <<"S", "t", "a", "n", "d", "a", "r", "d">> >> >>

\* a line that holds one field only
BlankRow == Len(BvbRows) + 1

bvb_served_row(r, columns) ==
    IF r = BlankRow THEN <<>>
    ELSE join([i \in 1..Len(columns) |-> BvbRows[r][columns[i]]], ";")

\* the CSV body: the header line and the data lines, CRLF between them and,
\* when the body is terminated, after the last one
bvb_served_body(rows, with_tier, terminated) ==
    LET columns == [i \in 1..(IF with_tier THEN TierColumn ELSE TierColumn - 1) |-> i]
        lines == <<join([i \in 1..Len(columns) |-> BvbHeader[columns[i]]], ";")>>
                    \o [i \in 1..Len(rows) |-> bvb_served_row(rows[i], columns)]
    IN  join(lines, CRLF) \o (IF terminated THEN <<CRLF>> ELSE <<>>)

\* the metadata endpoint: sector and industry of a symbol
wapi_of(symbol) ==
    [sector |-> StrVal(<<"Sector", " ">> \o symbol), industry |-> StrVal(<<"Industry", " ">> \o symbol)]

\* get_shares(market, tier) and get_share_info(symbol) call
\* __get_shares_from_share_list with these arguments (lines 233, 329)
shares_args ==
    IF shares_call.entry = "get_shares"
    THEN [market |-> shares_call.market, tier |-> shares_call.tier, symbol |-> StrVal(<<"a", "l", "l">>)]
    ELSE [market |-> StrVal(<<"a", "l", "l">>), tier |-> StrVal(<<"a", "l", "l">>),
          symbol |-> shares_call.symbol]

\* response_lines[1:-1]
bvb_data_lines == SubSeq(shares_lines, 2, Len(shares_lines) - 1)

\* a direct call of _standardize_list_parameter (lines 13-54)
Standardize ==
    /\ shares_pc = "start"
    /\ shares_call.entry = "_standardize_list_parameter"
    /\ LET r == standardize_list_parameter(shares_call.possible_values, shares_call.value)
       IN  IF r.exc # NoExc
           THEN shares_pc' = "raised" /\ shares_outcome' = r.exc
           ELSE shares_pc' = "returned" /\ shares_outcome' = [type |-> "list", value |-> r.list]
    /\ UNCHANGED <<shares_call, shares_site, FILTERS, shares_lines, row_no, return_values, info_no,
                   shares_requests, listing_vars, entity_vars, history_vars, form_vars>>

\* lines 139-162: the filters, before any request
BuildFilters ==
    /\ shares_pc = "start"
    /\ shares_call.entry \in {"get_shares", "get_share_info"}
    /\ LET a == shares_args
           r == filters_of(a.market, a.tier, a.symbol)
       IN  IF r.exc # NoExc
           THEN shares_pc' = "raised" /\ shares_outcome' = r.exc /\ UNCHANGED FILTERS
           ELSE shares_pc' = "filters" /\ FILTERS' = r.filters /\ UNCHANGED shares_outcome
    /\ UNCHANGED <<shares_call, shares_site, shares_lines, row_no, return_values, info_no,
                   shares_requests, listing_vars, entity_vars, history_vars, form_vars>>

\* lines 165-174: the listing GET, its lines, the header and the column indexes
FetchShareList ==
    /\ shares_pc = "filters"
    /\ shares_requests' = Append(shares_requests, [url |-> "SharesListForDownload", symbol |-> Unset])
    /\ LET invalid == get_url_response(shares_site.listing)
           fetched == split(shares_site.listing.text, CRLF)
       IN  IF invalid # NoExc
           THEN shares_pc' = "raised" /\ shares_outcome' = invalid /\ UNCHANGED shares_lines
           ELSE /\ shares_lines' = fetched
                /\ IF columns_found(headers_of(fetched))
                   THEN shares_pc' = "rows" /\ UNCHANGED shares_outcome
                   ELSE /\ shares_pc' = "raised"
                        /\ shares_outcome' = [type |-> "ValueError", message |-> "is not in list"]
    /\ UNCHANGED <<shares_call, shares_site, FILTERS, row_no, return_values, info_no,
                   listing_vars, entity_vars, history_vars, form_vars>>

\* lines 181-228: one iteration of the loop over response_lines[1:-1]
FilterRow ==
    /\ shares_pc = "rows"
    /\ row_no < Len(bvb_data_lines)
    /\ LET headers == headers_of(shares_lines)
           r == shares_of_row(bvb_data_lines[row_no + 1], FILTERS, headers)
       IN  IF r.exc # NoExc
           THEN /\ shares_pc' = "raised" /\ shares_outcome' = r.exc
                /\ UNCHANGED <<row_no, return_values>>
           ELSE /\ return_values' = return_values \o r.shares
                /\ row_no' = row_no + 1
                /\ UNCHANGED <<shares_pc, shares_outcome>>
    /\ UNCHANGED <<shares_call, shares_site, FILTERS, shares_lines, info_no, shares_requests,
                   listing_vars, entity_vars, history_vars, form_vars>>

\* lines 63-73 inside the loops of lines 234-235 and 330-331: the metadata
\* of one returned Share
RequestInfo ==
    /\ shares_pc = "rows"
    /\ row_no = Len(bvb_data_lines)
    /\ info_no < Len(return_values)
    /\ LET this == return_values[info_no + 1]
           data == wapi_of(this.symbol.s)
           filled == [this.company.obj EXCEPT !.sector = data.sector, !.industry = data.industry]
       IN  /\ shares_requests' = Append(shares_requests, [url |-> "symbols", symbol |-> this.symbol])
           /\ IF this.symbol.s \in shares_site.no_metadata
              THEN /\ shares_pc' = "raised"
                   /\ shares_outcome' = [type |-> "ValueError", message |-> "Response is not valid."]
                   /\ UNCHANGED <<return_values, info_no>>
              ELSE /\ return_values' = [return_values EXCEPT ![info_no + 1].company = CompanyVal(filled)]
                   /\ info_no' = info_no + 1
                   /\ UNCHANGED <<shares_pc, shares_outcome>>
    /\ UNCHANGED <<shares_call, shares_site, FILTERS, shares_lines, row_no,
                   listing_vars, entity_vars, history_vars, form_vars>>

\* lines 236 and 332: return shares
ReturnShares ==
    /\ shares_pc = "rows"
    /\ row_no = Len(bvb_data_lines)
    /\ info_no = Len(return_values)
    /\ shares_pc' = "returned"
    /\ shares_outcome' = [type |-> "list", value |-> return_values]
    /\ UNCHANGED <<shares_call, shares_site, FILTERS, shares_lines, row_no, return_values, info_no,
                   shares_requests, listing_vars, entity_vars, history_vars, form_vars>>

\* the calls and what the exchange serves to them
InitShares ==
    /\ ListingIdle
    /\ EntityIdle
    /\ HistoryIdle
    /\ FormIdle
    /\ shares_pc = "start"
    /\ FILTERS = <<>>
    /\ shares_lines = <<>>
    /\ row_no = 0
    /\ return_values = <<>>
    /\ info_no = 0
    /\ shares_requests = <<>>
    /\ shares_outcome = Unset
    /\ LET all == StrVal(<<"a", "l", "l">>)
           served(rows, with_tier, terminated, down) ==
               [listing |-> [status_code |-> 200, text |-> bvb_served_body(rows, with_tier, terminated)],
                rows |-> rows, with_tier |-> with_tier, terminated |-> terminated,
                no_metadata |-> down]
           unavailable == [served(<<>>, TRUE, TRUE, {}) EXCEPT
                              !.listing = [status_code |-> 500, text |-> <<>>]]
           row_seqs == UNION {[1..n -> 1..BlankRow] : n \in 0..MaxRows}
           sites == {served(rows, TRUE, TRUE, {}) : rows \in row_seqs}
                    \cup {served(rows, with_tier, terminated, down) :
                            rows \in {r \in row_seqs : Len(r) <= 1}, with_tier \in BOOLEAN,
                            terminated \in BOOLEAN, down \in SUBSET {<<"M", "A", "B", "E">>}}
                    \cup {unavailable}
           usual == {served(rows, TRUE, TRUE, {}) :
                        rows \in {r \in row_seqs : Len(r) = MaxRows /\ r[1] \in {1, 2} /\ r[2] \in {2, 3}}}
           markets == {all, StrVal(<<>>), StrVal(<<"R", "E", "G", "S">>), StrVal(<<"a", "e", "r", "o">>),
                       StrVal(<<"M", "T", "S">>), StrVal(<<"I", "N", "V">>),
                       ListVal(<<StrVal(<<"M", "T", "S">>), StrVal(<<"R", "E", "G", "S">>)>>),
                       ListVal(<<StrVal(<<"R", "E", "G", "S">>), StrVal(<<"I", "N", "V">>)>>), NoneVal}
           tiers == {all, StrVal(<<"S", "T", "A", "N", "D", "A", "R", "D">>),
                     StrVal(<<"m", "t", "s", "_", "i", "n", "t", "l">>),
                     ListVal(<<StrVal(<<"P", "R", "E", "M", "I", "U", "M">>), StrVal(<<"A", "E", "R", "O", "_", "S", "T", "A", "N", "D", "A", "R", "D">>)>>),
                     StrVal(<<"G", "o", "l", "d">>), IntVal(7)}
           symbols == {all, StrVal(<<"a", "a", "g">>), StrVal(<<"X", "Y", "Z">>), StrVal(<<"N", "I", "S">>),
                       ListVal(<<StrVal(<<"A", "B", "C">>), StrVal(<<"A", "A", "G">>)>>),
                       ListVal(<<StrVal(<<"M", "A", "B", "E">>)>>), ListVal(<<>>),
                       ListVal(<<StrVal(<<"T", "-", "V">>)>>), ListVal(<<IntVal(7)>>), NoneVal}
           listed(market, tier) ==
               [entry |-> "get_shares", market |-> market, tier |-> tier, symbol |-> Unset,
                possible_values |-> Unset, value |-> Unset]
           looked_up(symbol) ==
               [entry |-> "get_share_info", market |-> Unset, tier |-> Unset, symbol |-> symbol,
                possible_values |-> Unset, value |-> Unset]
           few == {listed(all, all), listed(StrVal(<<"R", "E", "G", "S">>), all),
                   listed(StrVal(<<"R", "E", "G", "S">>), StrVal(<<"M", "T", "S", "_", "I", "N", "T", "L">>)),
                   listed(ListVal(<<StrVal(<<"M", "T", "S">>), StrVal(<<"R", "E", "G", "S">>)>>), all),
                   listed(StrVal(<<"a", "e", "r", "o">>),
                          StrVal(<<"a", "e", "r", "o", "_", "s", "t", "a", "n", "d", "a", "r", "d">>)),
                   looked_up(all), looked_up(ListVal(<<StrVal(<<"a", "b", "c">>), StrVal(<<"A", "A", "G">>)>>)),
                   looked_up(ListVal(<<>>))}
           every == {listed(market, tier) : market \in markets, tier \in tiers}
                    \cup {looked_up(symbol) : symbol \in symbols}
           possible == {ListVal(<<StrVal(<<"R", "E", "G", "S">>), StrVal(<<"A", "E", "R", "O">>), StrVal(<<"M", "T", "S">>)>>),
                        ListVal(<<StrVal(<<"R", "E", "G", "S">>), StrVal(<<"A", "E", "R", "O">>), StrVal(<<"M", "T", "S">>), StrVal(<<"N", "E", "W">>)>>),
                        ListVal(<<StrVal(<<"r", "e", "g", "s">>), StrVal(<<"a", "e", "r", "o">>)>>),
                        ListVal(<<>>), [t |-> "dict"]}
           values == {StrVal(<<>>), StrVal(<<"a", "l", "l">>), StrVal(<<"A", "L", "L">>),
                      StrVal(<<"A", "l", "l">>), StrVal(<<"A", "E", "R", "O">>), StrVal(<<"m", "t", "s">>),
                      StrVal(<<"I", "N", "V">>), ListVal(<<StrVal(<<"A", "E", "R", "O">>)>>),
                      ListVal(<<StrVal(<<"m", "t", "s">>)>>),
                      ListVal(<<StrVal(<<"A", "E", "R", "O">>), StrVal(<<"R", "E", "G", "S">>)>>),
                      ListVal(<<StrVal(<<"I", "N", "V", "A", "L", "I", "D">>)>>),
                      ListVal(<<StrVal(<<"R", "E", "G", "S">>), StrVal(<<"I", "N", "V", "A", "L", "I", "D">>)>>),
                      ListVal(<<StrVal(<<"a", "l", "l">>)>>), ListVal(<<>>), ListVal(<<IntVal(7)>>),
                      [t |-> "dict"], NoneVal, IntVal(7)}
       IN  \/ /\ shares_site \in sites
              /\ shares_call \in few
           \/ /\ shares_site \in usual
              /\ shares_call \in every
           \/ /\ shares_site = Unset
              /\ shares_call \in
                    {[entry |-> "_standardize_list_parameter", market |-> Unset, tier |-> Unset,
                      symbol |-> Unset, possible_values |-> p, value |-> v] :
                        p \in possible, v \in values}

NextShares ==
    Standardize \/ BuildFilters \/ FetchShareList \/ FilterRow \/ RequestInfo \/ ReturnShares

SpecShares == InitShares /\ [][NextShares]_vars

----------------------------------------------------------------------------
(* Properties of the filtered listing *)

\* the scraped values a market or tier argument asks for: all of them for ""
\* or "all", else the ones of the abbreviations given
requested(d, value) ==
    LET asked == IF value.t = "str" THEN {upper(value.s)}
                 ELSE {upper(value.l[i].s) : i \in 1..Len(value.l)}
    IN  IF value.t = "str" /\ upper(value.s) \in {<<>>, <<"A", "L", "L">>}
        THEN {d[j].value : j \in 1..Len(d)}
        ELSE {d[j].value : j \in {k \in 1..Len(d) : d[k].key \in asked}}

MarketColumn == TierColumn - 1

\* the rows of the served file that are of a requested market and tier
rows_matching(markets, tiers) ==
    SelectSeq(shares_site.rows, LAMBDA r :
        /\ r # BlankRow
        /\ upper(BvbRows[r][MarketColumn]) \in markets
        /\ upper(BvbRows[r][TierColumn]) \in tiers)

\* the symbols of the Shares returned, in their order
returned_symbols == [i \in 1..Len(shares_outcome.value) |-> shares_outcome.value[i].symbol.s]

\* a get_shares call that returned, on a file whose lines all end with CRLF
ListedShares ==
    /\ shares_call.entry = "get_shares" /\ shares_pc = "returned"
    /\ shares_site.terminated

\* C21: get_shares(market, tier) returns the rows of the listing whose main
\* market is one of the requested markets and whose tier is one of the
\* requested tiers, in file order; "all" and "" ask for every market or
\* tier, a market or tier no row has adds no row, and when no row has the
\* combination the list is empty.
C21_MarketTierFilter ==
    ListedShares =>
        LET rows == rows_matching(requested(MARKETS, shares_call.market),
                                  requested(TIERS, shares_call.tier))
        IN  returned_symbols = [i \in 1..Len(rows) |-> BvbRows[rows[i]][1]]

\* C21 witness: of two rows served, the one of the requested market came back
C21_Witness ==
    /\ ListedShares
    /\ shares_call.market = StrVal(<<"R", "E", "G", "S">>)
    /\ shares_site.rows = <<2, 3>>
    /\ returned_symbols = << <<"A", "B", "C">> >>

\* the symbols a symbol argument names: the one of a string, the ones of a list
symbols_given ==
    IF shares_call.symbol.t = "str" THEN {upper(shares_call.symbol.s)}
    ELSE {upper(shares_call.symbol.l[i].s) :
            i \in {k \in 1..Len(shares_call.symbol.l) : shares_call.symbol.l[k].t = "str"}}

\* a get_share_info call for a symbol or a list of symbols (not for "all")
\* that returned
LookedUp ==
    /\ shares_call.entry = "get_share_info" /\ shares_pc = "returned"
    /\ \/ shares_call.symbol.t = "list"
       \/ shares_call.symbol.t = "str" /\ upper(shares_call.symbol.s) # <<"A", "L", "L">>

\* C22: when the listing is filtered by a symbol or by a list of symbols,
\* whatever the list, only rows whose symbol is in the list are returned; a
\* row of another symbol is excluded though its market and tier match.
C22_SymbolFilter ==
    LookedUp => \A i \in 1..Len(returned_symbols) : returned_symbols[i] \in symbols_given

\* a direct call of _standardize_list_parameter has ended
Standardized ==
    /\ shares_call.entry = "_standardize_list_parameter"
    /\ shares_pc \in {"returned", "raised"}

\* every element is a string in upper case
UpperStrings(l) == \A i \in 1..Len(l) : l[i].t = "str" /\ upper(l[i].s) = l[i].s

\* what C23 says of a call that has ended
StandardizedAsSaid ==
    LET possible_values == shares_call.possible_values
        value == shares_call.value
        member(x) == \E i \in 1..Len(possible_values.l) : possible_values.l[i] = x
        valid(x) == member(StrVal(upper(x.s)))
        returns(l) == shares_pc = "returned" /\ shares_outcome.value = l
        raises(type) == shares_pc = "raised" /\ shares_outcome.type = type
    IN  /\ possible_values.t # "list" => raises("TypeError")
        /\ (possible_values.t = "list" /\ value.t \notin {"str", "list"}) => raises("TypeError")
        /\ (possible_values.t = "list" /\ value.t = "str") =>
                IF upper(value.s) \in {<<>>, <<"A", "L", "L">>} THEN returns(possible_values.l)
                ELSE IF valid(value) THEN returns(<<StrVal(upper(value.s))>>)
                ELSE raises("ValueError")
        /\ (possible_values.t = "list" /\ value.t = "list"
                /\ \A i \in 1..Len(value.l) : value.l[i].t = "str") =>
                IF \A i \in 1..Len(value.l) : valid(value.l[i])
                THEN returns([i \in 1..Len(value.l) |-> StrVal(upper(value.l[i].s))])
                ELSE raises("ValueError")
        /\ shares_pc = "returned" =>
                /\ UpperStrings(shares_outcome.value)
                /\ \A i \in 1..Len(shares_outcome.value) : member(shares_outcome.value[i])

====
